------------------------------- MODULE MyCatProofs -------------------------------
(****************************************************************************)
(* mycat.c for files of any size, any buffer and any disk: IInv of MyCat is *)
(* inductive, and the run's invariants follow from it.                      *)
(****************************************************************************)
EXTENDS MyCat, SequenceTheorems, TLAPS

(* The descriptor table *)

LEMMA LowestIs ==
    ASSUME NEW t, NEW n \in Fd, t[n] = "closed", \A m \in 0..(n - 1) : t[m] # "closed"
    PROVE  Lowest(t) = n
<1>1. ASSUME NEW k \in Fd, t[k] = "closed", \A m \in 0..(k - 1) : t[m] # "closed"
      PROVE  k = n
  <2>1. ~(n < k) /\ ~(k < n)
    BY <1>1 DEF Fd
  <2> QED  BY <2>1 DEF Fd
<1> QED  BY <1>1 DEF Lowest

LEMMA TableTypes ==
    ASSUME NEW t \in [Fd -> Open], NEW m \in Fd \cup {-1}, NEW n \in Fd \cup {-1}
    PROVE  Closed(t, n) \in [Fd -> Open] /\ Dup2(t, m, 1) \in [Fd -> Open]
<1>1. "closed" \in Open /\ 1 \in Fd
  BY DEF Open, Fd
<1>2. Closed(t, n) \in [Fd -> Open]
  BY <1>1 DEF Closed
<1>3. Dup2(t, m, 1) \in [Fd -> Open]
  BY <1>1 DEF Dup2
<1> QED  BY <1>2, <1>3

LEMMA StartTable == StartFds \in [Fd -> Open]
  BY DEF StartFds, Open

\* What open answers for the source, and then for the target.
LEMMA FirstFree ==
    ASSUME start1 \in {"term", "source", "closed"}
    PROVE  /\ Lowest(StartFds) = InFd /\ Lowest([StartFds EXCEPT ![InFd] = "in"]) = OutFd
           /\ InFd \in Fd /\ OutFd \in Fd
<1>1. /\ InFd \in Fd /\ OutFd \in Fd
      /\ StartFds[InFd] = "closed" /\ \A m \in 0..(InFd - 1) : StartFds[m] # "closed"
  BY DEF InFd, OutFd, StartFds, Fd
<1>2. Lowest(StartFds) = InFd
  BY <1>1, LowestIs
<1> DEFINE t == [StartFds EXCEPT ![InFd] = "in"]
<1>3. t[OutFd] = "closed" /\ \A m \in 0..(OutFd - 1) : t[m] # "closed"
  BY DEF InFd, OutFd, StartFds, Fd
<1> HIDE DEF t
<1>4. Lowest(t) = OutFd
  BY <1>1, <1>3, LowestIs
<1> QED  BY <1>1, <1>2, <1>4 DEF t

\* What dup answers.
LEMMA ThirdFree ==
    ASSUME start1 \in {"term", "source", "closed"}
    PROVE  Lowest([StartFds EXCEPT ![InFd] = "in", ![OutFd] = "out"])
             = IF start1 = "closed" THEN 4 ELSE 5
<1>1. CASE start1 = "closed"
  <2> DEFINE t == [StartFds EXCEPT ![1] = "in", ![3] = "out"]
  <2>1. InFd = 1 /\ OutFd = 3
    BY <1>1 DEF InFd, OutFd
  <2>2. t[4] = "closed" /\ \A m \in 0..3 : t[m] # "closed"
    <3>1. \A m \in Fd : t[m] = IF m = 3 THEN "out" ELSE IF m = 1 THEN "in" ELSE StartFds[m]
      BY DEF StartFds
    <3> HIDE DEF t
    <3>2. StartFds[4] = "closed" /\ \A m \in 0..3 : m = 3 \/ m = 1 \/ StartFds[m] # "closed"
      BY <1>1 DEF StartFds, Fd
    <3> QED  BY <3>1, <3>2 DEF Fd
  <2> HIDE DEF t
  <2>3. Lowest(t) = 4
    <3>1. 4 \in Fd /\ 4 - 1 = 3
      BY DEF Fd
    <3> QED  BY <2>2, <3>1, LowestIs
  <2> QED  BY <1>1, <2>1, <2>3 DEF t
<1>2. CASE start1 # "closed"
  <2> DEFINE t == [StartFds EXCEPT ![3] = "in", ![4] = "out"]
  <2>1. InFd = 3 /\ OutFd = 4
    BY <1>2 DEF InFd, OutFd
  <2>2. t[5] = "closed" /\ \A m \in 0..4 : t[m] # "closed"
    <3>1. \A m \in Fd : t[m] = IF m = 4 THEN "out" ELSE IF m = 3 THEN "in" ELSE StartFds[m]
      BY DEF StartFds
    <3> HIDE DEF t
    <3>2. StartFds[5] = "closed" /\ \A m \in 0..4 : m = 4 \/ m = 3 \/ StartFds[m] # "closed"
      BY <1>2 DEF StartFds, Fd
    <3> QED  BY <3>1, <3>2 DEF Fd
  <2> HIDE DEF t
  <2>3. Lowest(t) = 5
    <3>1. 5 \in Fd /\ 5 - 1 = 4
      BY DEF Fd
    <3> QED  BY <2>2, <3>1, LowestIs
  <2> QED  BY <1>2, <2>1, <2>3 DEF t
<1> QED  BY <1>1, <1>2

--------------------------------------------------------------------------------
(* Files *)

LEMMA SourceSeq == Source \in Seq(Nat) /\ Len(Source) = InSize
<1>1. Source \in [1..InSize -> Nat] /\ InSize \in Nat
  BY SizeAssumption DEF Source
<1>2. Source \in Seq(Nat)
  BY <1>1, SeqDef
<1>3. DOMAIN Source = 1..InSize
  BY DEF Source
<1> QED  BY <1>1, <1>2, <1>3, LenProperties

LEMMA PrefixRefl ==
    ASSUME NEW s \in Seq(Nat)
    PROVE  IsPrefixOf(s, s)
  BY SubSeqFull, LenProperties DEF IsPrefixOf

\* A file that is only appended to keeps what it had.
LEMMA PrefixStays ==
    ASSUME NEW s \in Seq(Nat), NEW t \in Seq(Nat), NEW u \in Seq(Nat), IsPrefixOf(s, t)
    PROVE  IsPrefixOf(s, t \o u)
<1>1. Len(s) \in Nat /\ Len(t) \in Nat /\ Len(u) \in Nat /\ Len(s) <= Len(t)
  BY LenProperties DEF IsPrefixOf
<1>2. Len(t \o u) = Len(t) + Len(u)
  BY ConcatProperties
<1>3. SubSeq(t \o u, 1, Len(s)) = SubSeq(t, 1, Len(s))
  <2>1. CASE Len(s) = 0
    BY <2>1, SubSeqEmpty
  <2>2. CASE Len(s) > 0
    BY <2>2, <1>1, SubSeqOfConcat1
  <2> QED  BY <2>1, <2>2, <1>1
<1> QED  BY <1>1, <1>2, <1>3 DEF IsPrefixOf

\* What has been read of a file stays the same when it is appended to.
LEMMA ReadStays ==
    ASSUME NEW t \in Seq(Nat), NEW u \in Seq(Nat), NEW p \in Nat, p <= Len(t)
    PROVE  SubSeq(t \o u, 1, p) = SubSeq(t, 1, p)
<1>1. CASE p = 0
  BY <1>1, SubSeqEmpty
<1>2. CASE p > 0
  BY <1>2, SubSeqOfConcat1, LenProperties
<1> QED  BY <1>1, <1>2

LEMMA OverwrittenIs ==
    ASSUME NEW s \in Seq(Nat), NEW t \in Seq(Nat), NEW p \in Nat, p <= Len(s)
    PROVE  /\ Overwritten(s, p, t) \in Seq(Nat)
           /\ Len(Overwritten(s, p, t)) =
                IF p + Len(t) <= Len(s) THEN Len(s) ELSE p + Len(t)
           /\ p = Len(s) => Overwritten(s, p, t) = s \o t
<1>1. Len(s) \in Nat /\ Len(t) \in Nat
  BY LenProperties
<1>2. \A n \in 1..Len(s) : s[n] \in Nat
  BY ElementOfSeq
<1> DEFINE a == SubSeq(s, 1, p)
           b == SubSeq(s, p + Len(t) + 1, Len(s))
<1>3. a \in Seq(Nat) /\ Len(a) = p
  <2>1. \A n \in 1..p : s[n] \in Nat
    BY <1>1, <1>2
  <2> QED  BY <2>1, SubSeqProperties
<1>4. b \in Seq(Nat) /\ Len(b) = IF p + Len(t) <= Len(s) THEN Len(s) - p - Len(t) ELSE 0
  <2>1. \A n \in (p + Len(t) + 1)..Len(s) : s[n] \in Nat
    BY <1>1, <1>2
  <2>2. p + Len(t) + 1 \in Int /\ Len(s) \in Int
    BY <1>1
  <2>3. /\ b \in Seq(Nat)
        /\ Len(b) = IF p + Len(t) + 1 <= Len(s) THEN Len(s) - (p + Len(t) + 1) + 1 ELSE 0
    BY <2>1, <2>2, SubSeqProperties
  <2> QED  BY <2>3, <1>1
<1>5. p = Len(s) => a = s /\ b = <<>>
  BY <1>1, SubSeqFull, SubSeqEmpty
<1>6. Overwritten(s, p, t) = (a \o t) \o b
  BY DEF Overwritten
<1> HIDE DEF a, b
<1>7. a \o t \in Seq(Nat) /\ Len(a \o t) = p + Len(t)
  BY <1>3, ConcatProperties
<1>8. (a \o t) \o b \in Seq(Nat) /\ Len((a \o t) \o b) = p + Len(t) + Len(b)
  <2> DEFINE c == a \o t
  <2>1. c \in Seq(Nat) /\ Len(c) = p + Len(t) /\ b \in Seq(Nat)
    BY <1>4, <1>7
  <2> HIDE DEF c
  <2>2. c \o b \in Seq(Nat) /\ Len(c \o b) = Len(c) + Len(b)
    BY <2>1, ConcatProperties
  <2> QED  BY <2>1, <2>2 DEF c
<1>9. ASSUME p = Len(s)  PROVE (a \o t) \o b = s \o t
  <2>1. a = s /\ b = <<>>
    BY <1>5, <1>9
  <2>2. (a \o t) \o <<>> = a \o t
    BY <1>7, ConcatEmptySeq
  <2> QED  BY <2>1, <2>2
<1>10. p + Len(t) + Len(b) = IF p + Len(t) <= Len(s) THEN Len(s) ELSE p + Len(t)
  <2> DEFINE i == Len(s)
             j == Len(t)
             k == Len(b)
  <2>1. p \in Nat /\ i \in Nat /\ j \in Nat /\ k = IF p + j <= i THEN i - p - j ELSE 0
    BY <1>1, <1>4
  <2> HIDE DEF i, j, k
  <2>2. p + j + k = IF p + j <= i THEN i ELSE p + j
    <3>1. CASE p + j <= i
      BY <2>1, <3>1
    <3>2. CASE ~(p + j <= i)
      BY <2>1, <3>2
    <3> QED  BY <3>1, <3>2
  <2> QED  BY <2>2 DEF i, j, k
<1> QED  BY <1>6, <1>8, <1>9, <1>10

--------------------------------------------------------------------------------
(* The steps *)

LEMMA Initially == Init => IInv
<1> SUFFICES ASSUME Init PROVE IInv
  OBVIOUS
<1> USE DEF Init
<1>1. Source \in Seq(Nat) /\ Len(Source) = InSize /\ InSize \in Nat
  BY SourceSeq, SizeAssumption
<1>2. <<>> \in Seq(Nat) /\ Len(<<>>) = 0
  OBVIOUS
<1>3. /\ content["source"] = Source /\ content["target"] = <<>> /\ content["term"] = <<>>
      /\ content \in [{"source", "target", "term"} -> Seq(Nat)]
  BY <1>1, <1>2
<1>4. TypeOK
  <2>1. \A f \in {"source", "target", "term"} : content[f] \in Seq(Nat) /\ Len(content[f]) <= Capacity
    <3>1. Len(content["source"]) = InSize /\ Len(content["target"]) = 0 /\ Len(content["term"]) = 0
      BY <1>1, <1>2, <1>3
    <3>2. 0 <= Capacity /\ InSize <= Capacity
      BY SizeAssumption
    <3> QED  BY <1>3, <3>1, <3>2
  <2>2. fd \in Fd \cup {-1} /\ out_fd \in Fd \cup {-1} /\ saved_stdout \in Fd \cup {-1}
    OBVIOUS
  <2>3. fds \in [Fd -> Open]
    BY StartTable
  <2>4. buff \in Seq(Nat) /\ buff_size \in Nat /\ Len(buff) <= buff_size
    BY <1>2
  <2>5. /\ args \in {"usage", "print", "into"} /\ same \in BOOLEAN
        /\ start1 \in {"term", "source", "closed"}
        /\ pc \in {"start", "openTarget", "redirect", "prepare", "read", "write", "done"}
        /\ status \in {0, 1} /\ inPos \in Nat /\ outPos \in Nat
        /\ readFailed \in BOOLEAN /\ shortWrite \in BOOLEAN /\ dupFailed \in BOOLEAN
    OBVIOUS
  <2> HIDE DEF Init
  <2> QED  BY <2>1, <2>2, <2>3, <2>4, <2>5 DEF TypeOK
<1>5. PhaseInv
  BY DEF PhaseInv
<1>6. FdInv
  BY DEF FdInv
<1>7. ContentInv
  BY <1>1, <1>2, <1>3, PrefixRefl DEF ContentInv, FileOf
<1>8. EndInv
  BY DEF EndInv
<1>9. InOrder
  <2>1. SubSeq(content["source"], 1, 0) = <<>> /\ <<>> \o <<>> = <<>>
    BY <1>1, <1>3, SubSeqEmpty, ConcatEmptySeq, <1>2
  <2> QED  BY <1>3, <2>1 DEF InOrder
<1>10. DescriptorsRestored
  BY DEF DescriptorsRestored
<1> QED  BY <1>4, <1>5, <1>6, <1>7, <1>8, <1>9, <1>10 DEF IInv

LEMMA FileTypes ==
    ASSUME IInv, NEW f \in {"source", "target", "term"}
    PROVE  content[f] \in Seq(Nat) /\ Len(content[f]) \in Nat /\ Len(content[f]) <= Capacity
  BY LenProperties DEF IInv, TypeOK

\* What a step that leaves the files alone leaves true.
LEMMA FilesSame ==
    ASSUME IInv, UNCHANGED <<argVars, fileVars, buff, shortWrite>>
    PROVE  ContentInv' /\ InOrder'
<1> USE DEF argVars, fileVars
<1>1. ContentInv'
  BY DEF IInv, ContentInv, FileOf
<1>2. InOrder'
  BY DEF IInv, InOrder, Sink, FileOf
<1> QED  BY <1>1, <1>2

\* What the way out puts back.
LEMMA Restoring ==
    ASSUME IInv, pc \in {"start", "openTarget", "prepare", "read", "write"},
           ~dupFailed, start1 # "closed"
    PROVE  Restored(Closed(fds, fd)) = StartFds /\ Closed(Restored(fds), fd) = StartFds
<1>1. StartFds \in [Fd -> Open] /\ StartFds[1] = "start" /\ StartFds[3] = "closed" /\ StartFds[5] = "closed"
  BY StartTable DEF StartFds, Fd
<1>2. InFd = 3 /\ 1 \in Fd /\ 3 \in Fd /\ 5 \in Fd
  BY DEF InFd, Fd
<1>3. CASE pc = "start"
  BY <1>3 DEF IInv, FdInv, Restored, Closed, Dup2
<1>4. CASE fds = [StartFds EXCEPT ![3] = "in"] /\ fd = 3 /\ saved_stdout = -1
  <2>1. Closed(fds, fd) = [fds EXCEPT ![3] = "closed"]
    BY <1>4 DEF Closed
  <2>2. [fds EXCEPT ![3] = "closed"] = StartFds
    BY <1>1, <1>2, <1>4
  <2> QED  BY <1>4, <2>1, <2>2 DEF Restored, Dup2, Closed
<1>5. CASE /\ fds = [StartFds EXCEPT ![1] = "out", ![3] = "in", ![5] = "start"]
           /\ fd = 3 /\ saved_stdout = 5
  <2>1. /\ fds \in [Fd -> Open] /\ fds[5] = "start"
        /\ \A n \in Fd : n \notin {1, 3, 5} => fds[n] = StartFds[n]
    BY <1>1, <1>2, <1>5 DEF Open
  <2>2. Closed(fds, fd) = [fds EXCEPT ![3] = "closed"]
    BY <1>5 DEF Closed
  <2>3. Restored(Closed(fds, fd)) = [fds EXCEPT ![3] = "closed", ![1] = "start", ![5] = "closed"]
    BY <1>2, <1>5, <2>1, <2>2 DEF Restored, Dup2, Closed
  <2>4. Closed(Restored(fds), fd) = [fds EXCEPT ![1] = "start", ![5] = "closed", ![3] = "closed"]
    BY <1>2, <1>5, <2>1 DEF Restored, Dup2, Closed
  <2>5. [fds EXCEPT ![3] = "closed", ![1] = "start", ![5] = "closed"] = StartFds
    BY <1>1, <1>2, <2>1
  <2>6. [fds EXCEPT ![1] = "start", ![5] = "closed", ![3] = "closed"] = StartFds
    BY <1>1, <1>2, <2>1
  <2> QED  BY <2>3, <2>4, <2>5, <2>6
<1>6. pc = "start" \/ pc = "openTarget" \/ args = "print" \/ args = "into"
  BY DEF IInv, PhaseInv, TypeOK
<1> QED  BY <1>2, <1>3, <1>4, <1>5, <1>6 DEF IInv, FdInv

LEMMA RestoredTypes ==
    ASSUME IInv
    PROVE  Restored(Closed(fds, fd)) \in [Fd -> Open] /\ Closed(Restored(fds), fd) \in [Fd -> Open]
<1>1. fds \in [Fd -> Open] /\ fd \in Fd \cup {-1} /\ saved_stdout \in Fd \cup {-1}
  BY DEF IInv, TypeOK
<1>2. \A t \in [Fd -> Open] : \A n \in Fd \cup {-1} : Closed(t, n) \in [Fd -> Open]
  BY TableTypes
<1>3. \A t \in [Fd -> Open] : Restored(t) \in [Fd -> Open]
  BY <1>1, <1>2, TableTypes DEF Restored
<1> QED  BY <1>1, <1>2, <1>3

LEMMA ReturnTypes ==
    ASSUME IInv, NEW code \in {0, 1}, Return(code), fds' \in [Fd -> Open],
           UNCHANGED fileVars, readFailed' \in BOOLEAN, shortWrite' = shortWrite,
           dupFailed' \in BOOLEAN
    PROVE  TypeOK' /\ FdInv' /\ ContentInv' /\ InOrder'
<1>1. ContentInv' /\ InOrder'
  BY FilesSame DEF Return, bufVars
<1>2. TypeOK'
  BY DEF IInv, TypeOK, Return, argVars, bufVars, fileVars
<1>3. FdInv'
  BY DEF FdInv, Return
<1> QED  BY <1>1, <1>2, <1>3

LEMMA UsageStep == IInv /\ Usage => IInv'
<1> SUFFICES ASSUME IInv, Usage PROVE IInv'
  OBVIOUS
<1> USE DEF Usage, Return, argVars, badVars
<1>1. TypeOK' /\ FdInv' /\ ContentInv' /\ InOrder'
  <2>1. fds' \in [Fd -> Open] /\ readFailed' \in BOOLEAN /\ dupFailed' \in BOOLEAN
    BY DEF IInv, TypeOK
  <2> QED  BY <2>1, ReturnTypes
<1>2. PhaseInv'
  BY DEF IInv, PhaseInv
<1>3. EndInv'
  BY DEF EndInv
<1>4. DescriptorsRestored'
  BY DEF IInv, FdInv, DescriptorsRestored, StartFds
<1> QED  BY <1>1, <1>2, <1>3, <1>4 DEF IInv

LEMMA CallFailsStep == IInv /\ CallFails => IInv'
<1> SUFFICES ASSUME IInv, CallFails PROVE IInv'
  OBVIOUS
<1> USE DEF CallFails, Return, argVars, badVars
<1>1. TypeOK' /\ FdInv' /\ ContentInv' /\ InOrder'
  <2>1. fds' \in [Fd -> Open] /\ readFailed' \in BOOLEAN /\ dupFailed' \in BOOLEAN
    BY RestoredTypes DEF IInv, TypeOK
  <2> QED  BY <2>1, ReturnTypes
<1>2. PhaseInv'
  BY DEF IInv, PhaseInv
<1>3. EndInv'
  BY DEF EndInv
<1>4. DescriptorsRestored'
  BY Restoring DEF DescriptorsRestored, StartFds
<1> QED  BY <1>1, <1>2, <1>3, <1>4 DEF IInv

LEMMA CopyEndsStep == IInv /\ (ReadEof \/ ReadFails) => IInv'
<1> SUFFICES ASSUME IInv, ReadEof \/ ReadFails PROVE IInv'
  OBVIOUS
<1> USE DEF ReadEof, ReadFails, CopyEnds, Return, argVars, bufVars, fileVars, badVars
<1>1. TypeOK' /\ FdInv' /\ ContentInv' /\ InOrder'
  <2>1. fds' \in [Fd -> Open] /\ readFailed' \in BOOLEAN /\ dupFailed' \in BOOLEAN
    BY RestoredTypes DEF IInv, TypeOK
  <2> QED  BY <2>1, ReturnTypes
<1>2. PhaseInv'
  BY DEF IInv, PhaseInv
<1>3. EndInv'
  <2>1. buff = <<>> /\ status = 0 /\ args # "usage" /\ args \in {"usage", "print", "into"}
    BY DEF IInv, PhaseInv, TypeOK
  <2>2. args = "print" /\ start1 = "closed" => inPos' = 0
    BY <2>1 DEF IInv, EndInv
  <2>3. fds[fd] = "in" \/ (args = "into" /\ start1 = "closed")
    <3>1. StartFds \in [Fd -> Open] /\ 1 \in Fd /\ 3 \in Fd /\ 5 \in Fd
      BY StartTable DEF Fd
    <3> QED  BY <2>1, <3>1 DEF IInv, FdInv, InFd
  <2>4. CASE ReadEof
    <3>1. inPos >= Len(content["source"])
      BY <2>4, FileTypes DEF Left, IInv, TypeOK
    <3> QED  BY <2>1, <2>2, <2>4, <3>1 DEF EndInv
  <2>5. CASE ReadFails
    BY <2>1, <2>2, <2>3, <2>5 DEF EndInv
  <2> QED  BY <2>4, <2>5
<1>4. DescriptorsRestored'
  BY Restoring DEF DescriptorsRestored, StartFds
<1> QED  BY <1>1, <1>2, <1>3, <1>4 DEF IInv

LEMMA OpenSourceStep == IInv /\ OpenSource => IInv'
<1> SUFFICES ASSUME IInv, OpenSource PROVE IInv'
  OBVIOUS
<1> USE DEF OpenSource, argVars, bufVars, fileVars, badVars
<1>1. /\ fds = StartFds /\ fds' = [StartFds EXCEPT ![InFd] = "in"] /\ fd' = InFd /\ InFd \in Fd
      /\ saved_stdout = -1
  BY FirstFree DEF IInv, FdInv, TypeOK, Opened
<1>2. TypeOK'
  <2>1. fds' \in [Fd -> Open]
    BY <1>1, StartTable DEF Open
  <2>2. fd' \in Fd \cup {-1}
    BY <1>1
  <2> QED  BY <2>1, <2>2 DEF IInv, TypeOK
<1>3. PhaseInv'
  BY DEF IInv, PhaseInv, TypeOK
<1>4. FdInv'
  BY <1>1 DEF FdInv, StartFds, InFd, OutFd, IInv, PhaseInv
<1>5. ContentInv' /\ InOrder'
  BY FilesSame
<1>6. EndInv'
  BY DEF IInv, EndInv, PhaseInv
<1>7. DescriptorsRestored'
  BY DEF DescriptorsRestored
<1> QED  BY <1>2, <1>3, <1>4, <1>5, <1>6, <1>7 DEF IInv

LEMMA OpenTargetStep == IInv /\ OpenTarget => IInv'
<1> SUFFICES ASSUME IInv, OpenTarget PROVE IInv'
  OBVIOUS
<1> USE DEF OpenTarget, argVars, bufVars, badVars
<1>1. /\ fds' = [StartFds EXCEPT ![InFd] = "in", ![OutFd] = "out"]
      /\ fd' = InFd /\ out_fd' = OutFd /\ InFd \in Fd /\ OutFd \in Fd /\ saved_stdout = -1
  BY FirstFree DEF IInv, FdInv, TypeOK, Opened
<1>2. /\ content \in [{"source", "target", "term"} -> Seq(Nat)]
      /\ FileOf("out") \in {"source", "target"} /\ <<>> \in Seq(Nat) /\ Len(<<>>) = 0
      /\ content' = [content EXCEPT ![FileOf("out")] = <<>>]
      /\ args = "into" /\ buff = <<>> /\ inPos = 0 /\ outPos = 0
  BY DEF IInv, ContentInv, PhaseInv, FileOf
<1>3. TypeOK'
  <2>1. fds' \in [Fd -> Open]
    BY <1>1, StartTable DEF Open
  <2>2. fd' \in Fd \cup {-1} /\ out_fd' \in Fd \cup {-1}
    BY <1>1
  <2>3. \A f \in {"source", "target", "term"} : content'[f] \in Seq(Nat) /\ Len(content'[f]) <= Capacity
    BY <1>2, FileTypes, SizeAssumption
  <2> QED  BY <2>1, <2>2, <2>3 DEF IInv, TypeOK
<1>4. PhaseInv'
  BY <1>2 DEF IInv, PhaseInv, TypeOK
<1>5. FdInv'
  BY <1>1 DEF FdInv, StartFds, InFd, OutFd
<1>6. ContentInv'
  <2>1. content' \in [{"source", "target", "term"} -> Seq(Nat)] /\ Len(content'[FileOf("out")]) = 0
    BY <1>2
  <2>2. ~same => content'["source"] = content["source"] /\ Len(content'["target"]) = 0
    BY <1>2 DEF FileOf
  <2> QED  BY <1>2, <2>1, <2>2 DEF IInv, ContentInv, FileOf
<1>7. InOrder'
  <2>1. SubSeq(content'["source"], 1, 0) = <<>> /\ <<>> \o <<>> = <<>>
    BY <1>2, SubSeqEmpty, ConcatEmptySeq
  <2>2. Sink' = FileOf("out")
    BY <1>2 DEF Sink, FileOf
  <2>3. content'[Sink'] = <<>> /\ content'["term"] = content["term"]
    BY <1>2, <2>2
  <2> QED  BY <1>2, <2>1, <2>3 DEF IInv, InOrder
<1>8. EndInv'
  BY <1>2 DEF EndInv
<1>9. DescriptorsRestored'
  BY DEF DescriptorsRestored
<1> QED  BY <1>3, <1>4, <1>5, <1>6, <1>7, <1>8, <1>9 DEF IInv

\* What dup answers, whether it fails or not.
LEMMA DupTypes ==
    ASSUME IInv, pc = "redirect"
    PROVE  /\ DupAnswers = {IF start1 = "closed" THEN 4 ELSE 5, -1}
           /\ \A n \in DupAnswers : n \in Fd \cup {-1} /\ Saved(n) \in [Fd -> Open]
<1>1. /\ fds = [StartFds EXCEPT ![InFd] = "in", ![OutFd] = "out"]
      /\ start1 \in {"term", "source", "closed"} /\ fds \in [Fd -> Open]
  BY DEF IInv, FdInv, TypeOK
<1>2. Lowest(fds) = IF start1 = "closed" THEN 4 ELSE 5
  BY <1>1, ThirdFree
<1>3. 4 \in Fd /\ 5 \in Fd /\ fds[1] \in Open
  BY <1>1 DEF Fd
<1>4. \A n \in DupAnswers : Saved(n) \in [Fd -> Open]
  BY <1>1, <1>2, <1>3 DEF DupAnswers, Saved, Opened
<1> QED  BY <1>2, <1>3, <1>4 DEF DupAnswers

LEMMA RedirectStep == IInv /\ Redirect => IInv'
<1> SUFFICES ASSUME IInv, Redirect PROVE IInv'
  OBVIOUS
<1> USE DEF Redirect, argVars, bufVars, fileVars
<1>1. PICK n \in DupAnswers :
         /\ saved_stdout' = n /\ dupFailed' = (n = -1)
         /\ fds' = Closed(Dup2(Saved(n), out_fd, 1), out_fd)
  OBVIOUS
<1>2. /\ fds = [StartFds EXCEPT ![InFd] = "in", ![OutFd] = "out"]
      /\ fd = InFd /\ out_fd = OutFd /\ fds \in [Fd -> Open]
      /\ args = "into" /\ status = 0
  BY DEF IInv, FdInv, TypeOK, PhaseInv
<1>3. n \in Fd \cup {-1} /\ Saved(n) \in [Fd -> Open]
  BY DupTypes
<1>4. n = -1 \/ n = IF start1 = "closed" THEN 4 ELSE 5
  BY DupTypes
<1>5. TypeOK'
  <2>1. fds' \in [Fd -> Open]
    BY <1>1, <1>3, TableTypes DEF IInv, TypeOK
  <2> QED  BY <1>1, <1>3, <2>1 DEF IInv, TypeOK
<1>6. PhaseInv'
  BY <1>1, <1>2 DEF IInv, PhaseInv
<1>7. FdInv'
  <2>1. OutFd \in Fd /\ OutFd # 1 /\ OutFd # -1 /\ 1 \in Fd /\ 3 \in Fd /\ 4 \in Fd /\ 5 \in Fd
    BY DEF OutFd, Fd
  <2>2. fds' = [Saved(n) EXCEPT ![1] = Saved(n)[OutFd], ![OutFd] = "closed"]
    BY <1>1, <1>2, <2>1 DEF Closed, Dup2
  <2>3. Saved(n)[OutFd] = "out"
    <3>1. fds[OutFd] = "out"
      BY <1>2, <2>1, StartTable
    <3>2. n = -1 => Saved(n) = fds
      BY DEF Saved
    <3>3. n # -1 => Saved(n) = [fds EXCEPT ![n] = fds[1]]
      BY DEF Saved, Opened, DupAnswers
    <3>4. n # OutFd
      BY <1>4 DEF OutFd
    <3> QED  BY <1>2, <2>1, <3>1, <3>2, <3>3, <3>4
  <2>4. fds'[1] = "out"
    BY <1>3, <2>1, <2>2, <2>3
  <2>5. ASSUME start1 # "closed"
        PROVE  IF dupFailed'
               THEN fds' = [StartFds EXCEPT ![1] = "out", ![3] = "in"]
               ELSE fds' = [StartFds EXCEPT ![1] = "out", ![3] = "in", ![5] = "start"]
    <3>1. InFd = 3 /\ OutFd = 4 /\ StartFds[1] = "start" /\ StartFds[4] = "closed"
      BY <2>5 DEF InFd, OutFd, StartFds, Fd
    <3>2. fds[1] = "start"
      BY <1>2, <2>1, <3>1, StartTable
    <3>3. CASE n = -1
      <4>1. fds' = [fds EXCEPT ![1] = "out", ![4] = "closed"]
        BY <2>2, <2>3, <3>1, <3>3 DEF Saved
      <4>2. fds' = [StartFds EXCEPT ![1] = "out", ![3] = "in"]
        BY <1>2, <2>1, <3>1, <4>1, StartTable
      <4> QED  BY <1>1, <3>3, <4>2
    <3>4. CASE n = 5
      <4> n # -1
        BY <3>4
      <4>1. Saved(n) = [fds EXCEPT ![5] = "start"]
        <5>1. Lowest(fds) = 5
          BY <3>4 DEF DupAnswers
        <5>2. Saved(n) = [fds EXCEPT ![Lowest(fds)] = fds[1]]
          BY DEF Saved, Opened
        <5> QED  BY <3>2, <5>1, <5>2
      <4>2. fds' = [fds EXCEPT ![5] = "start", ![1] = "out", ![4] = "closed"]
        BY <2>2, <2>3, <3>1, <4>1
      <4>3. fds' = [StartFds EXCEPT ![1] = "out", ![3] = "in", ![5] = "start"]
        BY <1>2, <2>1, <3>1, <4>2, StartTable
      <4>4. ~dupFailed'
        BY <1>1
      <4> QED  BY <4>3, <4>4
    <3> QED  BY <1>4, <2>5, <3>3, <3>4
  <2> QED  BY <1>1, <1>2, <1>4, <2>4, <2>5 DEF FdInv, StartFds, InFd
<1>8. ContentInv' /\ InOrder'
  BY FilesSame
<1>9. EndInv'
  BY <1>2 DEF EndInv
<1>10. DescriptorsRestored'
  BY DEF DescriptorsRestored
<1> QED  BY <1>5, <1>6, <1>7, <1>8, <1>9, <1>10 DEF IInv

LEMMA RedirectFailsStep == IInv /\ RedirectFails => IInv'
<1> SUFFICES ASSUME IInv, RedirectFails PROVE IInv'
  OBVIOUS
<1> USE DEF RedirectFails, Return, argVars, bufVars, fileVars
<1>1. TypeOK' /\ FdInv' /\ ContentInv' /\ InOrder'
  <2>1. fds' \in [Fd -> Open]
    <3>1. PICK n \in DupAnswers : fds' = Closed(Closed(Saved(n), fd), out_fd)
      OBVIOUS
    <3>2. Saved(n) \in [Fd -> Open] /\ fd \in Fd \cup {-1} /\ out_fd \in Fd \cup {-1}
      BY DupTypes DEF IInv, TypeOK
    <3>3. Closed(Saved(n), fd) \in [Fd -> Open]
      BY <3>2, TableTypes
    <3> QED  BY <3>1, <3>2, <3>3, TableTypes
  <2>2. readFailed' \in BOOLEAN /\ dupFailed' \in BOOLEAN
    BY DEF IInv, TypeOK
  <2> QED  BY <2>1, <2>2, ReturnTypes
<1>2. PhaseInv'
  BY DEF IInv, PhaseInv
<1>3. EndInv' /\ DescriptorsRestored'
  BY DEF EndInv, DescriptorsRestored
<1> QED  BY <1>1, <1>2, <1>3 DEF IInv

\* fd refers to the source as long as main reads from it, but for an "into" that has
\* overwritten it.
LEMMA ReadFrom ==
    ASSUME IInv, pc \in {"prepare", "read", "write"}
    PROVE  /\ FileOf(fds[fd]) \in {"source", "target"}
           /\ args = "print" \/ args = "into"
           /\ args = "into" => fds[1] = "out"
           /\ args = "print" => fds[1] = IF start1 = "closed" THEN "in" ELSE "start"
<1>1. args = "print" \/ args = "into"
  BY DEF IInv, PhaseInv, TypeOK
<1>2. StartFds \in [Fd -> Open] /\ 1 \in Fd /\ 3 \in Fd /\ 5 \in Fd
  BY StartTable DEF Fd
<1>3. fd = IF start1 = "closed" THEN 1 ELSE 3
  BY DEF IInv, FdInv, InFd
<1>4. CASE args = "print"
  <2>1. fds = [StartFds EXCEPT ![IF start1 = "closed" THEN 1 ELSE 3] = "in"]
    BY <1>4 DEF IInv, FdInv, InFd
  <2>2. start1 # "closed" => StartFds[1] = "start"
    BY <1>2 DEF StartFds
  <2> QED  BY <1>2, <1>3, <1>4, <2>1, <2>2 DEF FileOf
<1>5. CASE args = "into"
  <2>1. fds[1] = "out"
    BY <1>5 DEF IInv, FdInv
  <2>2. start1 # "closed" => fds[3] = "in"
    BY <1>2, <1>5 DEF IInv, FdInv
  <2> QED  BY <1>3, <1>5, <2>1, <2>2 DEF FileOf
<1> QED  BY <1>1, <1>4, <1>5

LEMMA PrepareStep == IInv /\ Prepare => IInv'
<1> SUFFICES ASSUME IInv, Prepare PROVE IInv'
  OBVIOUS
<1> USE DEF Prepare, argVars, fdVars, fileVars, badVars
<1>1. buff_size' \in Nat /\ buff_size' > 0
  <2>1. Len(content[FileOf(fds[fd])]) \in Nat
    BY ReadFrom, FileTypes
  <2> QED  BY <2>1, SizeAssumption
<1>2. buff = <<>> /\ Len(<<>>) = 0
  BY DEF IInv, PhaseInv
<1>3. TypeOK'
  BY <1>1, <1>2 DEF IInv, TypeOK
<1>4. PhaseInv'
  BY <1>1 DEF IInv, PhaseInv
<1>5. FdInv'
  BY DEF IInv, FdInv, StartFds, InFd
<1>6. ContentInv' /\ InOrder'
  BY FilesSame
<1>7. EndInv' /\ DescriptorsRestored'
  BY DEF IInv, EndInv, DescriptorsRestored
<1> QED  BY <1>3, <1>4, <1>5, <1>6, <1>7 DEF IInv

LEMMA ReadStep == IInv /\ Read => IInv'
<1> SUFFICES ASSUME IInv, Read PROVE IInv'
  OBVIOUS
<1> USE DEF argVars, fdVars, badVars
<1> DEFINE s == content["source"]
           n == IF Left < buff_size THEN Left ELSE buff_size
<1>1. /\ pc = "read" /\ pc' = "write" /\ Left > 0
      /\ buff' = SubSeq(s, inPos + 1, inPos + n) /\ inPos' = inPos + n
      /\ UNCHANGED <<argVars, fdVars, content, outPos, buff_size, status, badVars>>
  BY DEF Read
<1>2. s \in Seq(Nat) /\ Len(s) \in Nat /\ inPos \in Nat /\ buff_size \in Nat /\ buff_size > 0
  BY <1>1, FileTypes DEF IInv, TypeOK, PhaseInv
<1>3. n \in Nat /\ n > 0 /\ n <= buff_size /\ inPos + n <= Len(s)
  BY <1>1, <1>2 DEF Left
<1> HIDE DEF s, n
<1>4. buff' \in Seq(Nat) /\ Len(buff') = n
  <2>1. \A i \in (inPos + 1)..(inPos + n) : s[i] \in Nat
    <3>1. \A i \in 1..Len(s) : s[i] \in Nat
      BY <1>2, ElementOfSeq
    <3>2. \A i \in (inPos + 1)..(inPos + n) : i \in 1..Len(s)
      BY <1>2, <1>3
    <3> QED  BY <3>1, <3>2
  <2> DEFINE lo == inPos + 1
             hi == inPos + n
  <2>2. lo \in Int /\ hi \in Int /\ hi - lo + 1 = n /\ lo <= hi
    BY <1>2, <1>3
  <2>3. buff' = SubSeq(s, lo, hi) /\ \A i \in lo..hi : s[i] \in Nat
    BY <1>1, <2>1
  <2> HIDE DEF lo, hi
  <2>4. buff' \in Seq(Nat) /\ Len(buff') = IF lo <= hi THEN hi - lo + 1 ELSE 0
    BY <2>2, <2>3, SubSeqProperties
  <2> QED  BY <2>2, <2>4
<1>5. TypeOK'
  BY <1>1, <1>2, <1>3, <1>4 DEF IInv, TypeOK
<1>6. PhaseInv'
  BY <1>1 DEF IInv, PhaseInv
<1>7. FdInv'
  BY <1>1 DEF IInv, FdInv, StartFds, InFd
<1>8. ContentInv'
  BY <1>1, <1>2, <1>3 DEF IInv, ContentInv, FileOf, s
<1>9. EndInv' /\ DescriptorsRestored'
  BY <1>1 DEF EndInv, DescriptorsRestored
<1>10. InOrder'
  <2>1. /\ Sink' = Sink /\ shortWrite' = shortWrite /\ content' = content /\ buff = <<>>
        /\ args' = args
    BY <1>1 DEF IInv, PhaseInv, Sink, FileOf
  <2>2. ASSUME Sink \in {"target", "term"}, ~shortWrite
        PROVE  content[Sink] \o buff' = SubSeq(s, 1, inPos + n)
    <3>1. content[Sink] \in Seq(Nat)
      BY <2>2, FileTypes
    <3>2. content[Sink] \o buff = SubSeq(s, 1, inPos)
      BY <2>2 DEF IInv, InOrder, s
    <3>3. content[Sink] = SubSeq(s, 1, inPos)
      BY <2>1, <3>1, <3>2, ConcatEmptySeq
    <3>4. SubSeq(s, 1, inPos) \o SubSeq(s, inPos + 1, inPos + n) = SubSeq(s, 1, inPos + n)
      <4>1. 1 \in 1..(Len(s) + 1) /\ inPos \in (1 - 1)..Len(s) /\ inPos + n \in inPos..Len(s)
        BY <1>2, <1>3
      <4> QED  BY <1>2, <4>1, ConcatAdjacentSubSeq
    <3> QED  BY <1>1, <3>3, <3>4
  <2>3. content'["source"] = s /\ inPos' = inPos + n
    BY <1>1, <2>1 DEF s
  <2>4. args = "into" => content["term"] = <<>>
    BY DEF IInv, InOrder
  <2> QED  BY <2>1, <2>2, <2>3, <2>4 DEF InOrder
<1> QED  BY <1>5, <1>6, <1>7, <1>8, <1>9, <1>10 DEF IInv

\* What Put does to the file: main is copying, and to descriptor 1 as it should be.
LEMMA PutDoes ==
    ASSUME IInv, pc = "write", NEW k \in 1..Len(buff), Put(k), UNCHANGED argVars
    PROVE  \E f \in {"source", "target", "term"} :
             /\ \/ args = "into" /\ f = FileOf("out") /\ f \in {"source", "target"}
                   /\ outPos' = outPos + k /\ outPos <= Len(content[f])
                   /\ content' = [content EXCEPT ![f] = Overwritten(@, outPos, SubSeq(buff, 1, k))]
                \/ args = "print" /\ f = start1 /\ start1 # "closed" /\ outPos' = outPos
                   /\ content' = [content EXCEPT ![f] = @ \o SubSeq(buff, 1, k)]
             /\ SubSeq(buff, 1, k) \in Seq(Nat) /\ Len(SubSeq(buff, 1, k)) = k
             /\ content'[f] \in Seq(Nat) /\ Len(content'[f]) <= Capacity
             /\ Len(content'[f]) >= Len(content[f])
             /\ args = "into" => outPos' <= Len(content'[f])
<1> DEFINE d == fds[1]
           f == FileOf(d)
           p == IF d = "out" THEN outPos ELSE Len(content[f])
           t == SubSeq(buff, 1, k)
<1>1. /\ d \in {"out", "start"} /\ p + k <= Capacity
      /\ content' = [content EXCEPT ![f] = Overwritten(@, p, t)]
      /\ outPos' = IF d = "out" THEN p + k ELSE outPos
  BY DEF Put
<1>2. /\ args = "into" \/ (args = "print" /\ start1 # "closed")
      /\ args = "into" => d = "out"
      /\ args = "print" => d = "start"
  <2>1. d = "out" \/ d = "start"
    BY <1>1
  <2>2. /\ args = "print" \/ args = "into"
        /\ args = "into" => d = "out"
        /\ args = "print" => d = IF start1 = "closed" THEN "in" ELSE "start"
    BY ReadFrom
  <2>3. args = "print" /\ start1 = "closed" => d = "in"
    BY <2>2
  <2>4. args = "print" /\ start1 # "closed" => d = "start"
    BY <2>2
  <2>5. ~(args = "print" /\ start1 = "closed")
    BY <2>1, <2>3
  <2> QED  BY <2>2, <2>4, <2>5
<1>3. /\ f \in {"source", "target", "term"}
      /\ args = "into" => f \in {"source", "target"} /\ f = FileOf("out")
      /\ args = "print" => f = start1
  BY <1>2 DEF FileOf, IInv, TypeOK
<1>4. /\ content[f] \in Seq(Nat) /\ Len(content[f]) \in Nat /\ Len(content[f]) <= Capacity
      /\ content \in [{"source", "target", "term"} -> Seq(Nat)] /\ outPos \in Nat
  BY <1>3, FileTypes DEF IInv, ContentInv, TypeOK
<1>5. p \in Nat /\ p <= Len(content[f])
  <2>1. CASE args = "into"
    <3>1. p = outPos /\ f = FileOf("out")
      BY <1>2, <1>3, <2>1
    <3>2. outPos <= Len(content[FileOf("out")])
      BY DEF IInv, ContentInv
    <3> QED  BY <1>4, <3>1, <3>2
  <2>2. CASE args = "print"
    <3>1. p = Len(content[f])
      BY <1>2, <2>2
    <3> QED  BY <1>4, <3>1
  <2> QED  BY <1>2, <2>1, <2>2
<1>6. t \in Seq(Nat) /\ Len(t) = k /\ k \in Nat
  <2>1. buff \in Seq(Nat) /\ Len(buff) \in Nat /\ k \in Nat /\ 1 <= k /\ k <= Len(buff)
    BY LenProperties DEF IInv, TypeOK
  <2>2. \A i \in 1..k : buff[i] \in Nat
    <3>1. \A i \in 1..Len(buff) : buff[i] \in Nat
      BY <2>1, ElementOfSeq
    <3> QED  BY <2>1, <3>1
  <2> QED  BY <2>1, <2>2, SubSeqProperties
<1> HIDE DEF t, f
<1>7. /\ Overwritten(content[f], p, t) \in Seq(Nat)
      /\ Len(Overwritten(content[f], p, t)) =
           IF p + k <= Len(content[f]) THEN Len(content[f]) ELSE p + k
      /\ p = Len(content[f]) => Overwritten(content[f], p, t) = content[f] \o t
  <2> HIDE DEF p
  <2> QED  BY <1>4, <1>5, <1>6, OverwrittenIs
<1>8. content'[f] = Overwritten(content[f], p, t)
  BY <1>1, <1>3, <1>4
<1>9. args = "print" => p = Len(content[f])
  BY <1>2
<1>10. p + k <= Capacity /\ (d = "out" => p = outPos /\ outPos' = p + k)
  BY <1>1
<1> HIDE DEF p, d
<1>11. /\ content'[f] \in Seq(Nat) /\ Len(content'[f]) <= Capacity
       /\ Len(content'[f]) >= Len(content[f]) /\ p + k <= Len(content'[f])
  <2>1. CASE p + k <= Len(content[f])
    BY <1>4, <1>7, <1>8, <2>1
  <2>2. CASE ~(p + k <= Len(content[f]))
    <3>1. Len(content'[f]) = p + k /\ content'[f] \in Seq(Nat)
      BY <1>7, <1>8, <2>2
    <3>2. p + k >= Len(content[f]) /\ p + k <= Capacity /\ p + k <= p + k
      BY <1>4, <1>5, <1>6, <1>10, <2>2
    <3> QED  BY <3>1, <3>2
  <2> QED  BY <2>1, <2>2
<1>12. CASE args = "into"
  <2>1. p = outPos /\ outPos' = outPos + k
    BY <1>2, <1>12, <1>10
  <2>2. content' = [content EXCEPT ![f] = Overwritten(@, outPos, t)]
    BY <1>1, <2>1
  <2>3. f \in {"source", "target"} /\ f = FileOf("out") /\ outPos <= Len(content[f])
    BY <1>3, <1>5, <1>12, <2>1
  <2>4. outPos' <= Len(content'[f])
    BY <1>11, <2>1
  <2> QED  BY <1>6, <1>11, <1>12, <2>1, <2>2, <2>3, <2>4 DEF t
<1>13. CASE args = "print"
  <2>1. /\ outPos' = outPos /\ start1 # "closed"
        /\ content' = [content EXCEPT ![f] = content[f] \o t]
    BY <1>1, <1>2, <1>7, <1>9, <1>13
  <2> QED  BY <1>3, <1>6, <1>11, <1>13, <2>1 DEF t
<1> QED  BY <1>2, <1>12, <1>13

LEMMA WriteStep == IInv /\ Write => IInv'
<1> SUFFICES ASSUME IInv, Write PROVE IInv'
  OBVIOUS
<1> USE DEF argVars, fdVars
<1>1. PICK k \in 1..Len(buff) : Put(k) /\ shortWrite' = (shortWrite \/ k < Len(buff))
  BY DEF Write
<1>2. /\ pc = "write" /\ pc' = "read" /\ buff' = <<>> /\ Len(<<>>) = 0
      /\ UNCHANGED <<argVars, fdVars, inPos, buff_size, status, readFailed, dupFailed>>
  BY DEF Write
<1> DEFINE t == SubSeq(buff, 1, k)
<1>3. PICK f \in {"source", "target", "term"} :
        /\ \/ args = "into" /\ f = FileOf("out") /\ f \in {"source", "target"}
              /\ outPos' = outPos + k /\ outPos <= Len(content[f])
              /\ content' = [content EXCEPT ![f] = Overwritten(@, outPos, t)]
           \/ args = "print" /\ f = start1 /\ start1 # "closed" /\ outPos' = outPos
              /\ content' = [content EXCEPT ![f] = @ \o t]
        /\ t \in Seq(Nat) /\ Len(t) = k
        /\ content'[f] \in Seq(Nat) /\ Len(content'[f]) <= Capacity
        /\ Len(content'[f]) >= Len(content[f])
        /\ args = "into" => outPos' <= Len(content'[f])
  BY <1>1, <1>2, PutDoes
<1> HIDE DEF t
<1>4. /\ content \in [{"source", "target", "term"} -> Seq(Nat)] /\ outPos \in Nat /\ k \in Nat
      /\ \A g \in {"source", "target", "term"} :
           content[g] \in Seq(Nat) /\ Len(content[g]) \in Nat /\ Len(content[g]) <= Capacity
  BY FileTypes DEF IInv, ContentInv, TypeOK
<1>5. \A g \in {"source", "target", "term"} : g # f => content'[g] = content[g]
  BY <1>3, <1>4
<1>6. content' \in [{"source", "target", "term"} -> Seq(Nat)]
  <2>1. \A g \in {"source", "target", "term"} : content'[g] \in Seq(Nat)
    BY <1>3, <1>4, <1>5
  <2>2. content' = [g \in {"source", "target", "term"} |-> content'[g]]
    BY <1>3, <1>4
  <2> QED  BY <2>1, <2>2
<1>7. TypeOK'
  <2>1. \A g \in {"source", "target", "term"} : content'[g] \in Seq(Nat) /\ Len(content'[g]) <= Capacity
    BY <1>3, <1>4, <1>5
  <2>2. outPos' \in Nat
    BY <1>3, <1>4
  <2>3. shortWrite' \in BOOLEAN
    BY <1>1
  <2> QED  BY <1>2, <2>1, <2>2, <2>3 DEF IInv, TypeOK
<1>8. PhaseInv'
  BY <1>2 DEF IInv, PhaseInv
<1>9. FdInv'
  BY <1>2 DEF IInv, FdInv, StartFds, InFd
\* What the target has already is kept, and the bytes are put after it.
<1>10. ~same /\ args = "into" =>
         /\ f = "target" /\ outPos = Len(content["target"])
         /\ content'["target"] = content["target"] \o t
         /\ outPos' = Len(content'["target"])
  <2> SUFFICES ASSUME ~same, args = "into"
               PROVE  /\ f = "target" /\ outPos = Len(content["target"])
                      /\ content'["target"] = content["target"] \o t
                      /\ outPos' = Len(content'["target"])
    OBVIOUS
  <2>1. f = "target" /\ outPos = Len(content["target"]) /\ outPos' = outPos + k
    BY <1>3 DEF FileOf, IInv, ContentInv
  <2>2. content'["target"] = Overwritten(content["target"], outPos, t)
    BY <1>3, <1>4, <2>1
  <2>3. content'["target"] = content["target"] \o t
    <3>1. /\ t \in Seq(Nat) /\ content["target"] \in Seq(Nat)
          /\ outPos \in Nat /\ outPos <= Len(content["target"])
      BY <1>3, <1>4, <2>1
    <3>2. Overwritten(content["target"], outPos, t) = content["target"] \o t
      BY <2>1, <3>1, OverwrittenIs
    <3> QED  BY <2>2, <3>2
  <2>4. Len(content'["target"]) = Len(content["target"]) + k
    <3>1. t \in Seq(Nat) /\ Len(t) = k /\ content["target"] \in Seq(Nat)
      BY <1>3, <1>4
    <3>2. Len(content["target"] \o t) = Len(content["target"]) + Len(t)
      BY <3>1, ConcatProperties
    <3> QED  BY <2>3, <3>1, <3>2
  <2> QED  BY <2>1, <2>3, <2>4
<1>11. ~same => /\ content'["source"] = content["source"] \/ content'["source"] = content["source"] \o t
                /\ Len(content'["source"]) >= Len(content["source"])
  <2>1. CASE f = "source"
    BY <1>3, <1>4, <1>10, <2>1
  <2>2. CASE f # "source"
    BY <1>4, <1>5, <2>2
  <2> QED  BY <2>1, <2>2
<1>12. ContentInv'
  <2>1. outPos' <= Len(content'[FileOf("out")])
    <3>1. CASE args = "into"
      BY <1>3, <3>1
    <3>2. CASE args # "into"
      <4>1. FileOf("out") = "target" /\ outPos' = outPos /\ f # "target"
        BY <1>3, <3>2 DEF IInv, PhaseInv, FileOf, TypeOK
      <4> QED  BY <1>5, <4>1 DEF IInv, ContentInv
    <3> QED  BY <3>1, <3>2
  <2>2. ASSUME ~same
        PROVE  /\ IsPrefixOf(Source, content'["source"]) /\ inPos <= Len(content'["source"])
               /\ outPos' = Len(content'["target"])
    <3>1. IsPrefixOf(Source, content["source"]) /\ inPos <= Len(content["source"]) /\ inPos \in Nat
      BY <2>2 DEF IInv, ContentInv, TypeOK
    <3>2. IsPrefixOf(Source, content["source"] \o t)
      BY <1>3, <1>4, <3>1, SourceSeq, PrefixStays
    <3>3. IsPrefixOf(Source, content'["source"])
      BY <1>11, <2>2, <3>1, <3>2
    <3>4. inPos <= Len(content'["source"])
      <4>1. Len(content'["source"]) \in Nat
        BY <1>6, LenProperties
      <4> QED  BY <1>4, <1>11, <2>2, <3>1, <4>1
    <3>5. outPos' = Len(content'["target"])
      <4>1. CASE args = "into"
        BY <1>10, <2>2, <4>1
      <4>2. CASE args # "into"
        <5>1. outPos' = outPos /\ f # "target"
          BY <1>3, <4>2 DEF IInv, TypeOK
        <5> QED  BY <1>5, <2>2, <5>1 DEF IInv, ContentInv
      <4> QED  BY <4>1, <4>2
    <3> QED  BY <3>3, <3>4, <3>5
  <2> QED  BY <1>2, <1>6, <2>1, <2>2 DEF ContentInv, FileOf
<1>13. EndInv' /\ DescriptorsRestored'
  BY <1>2, <1>3 DEF EndInv, DescriptorsRestored
<1>14. InOrder'
  <2>1. Sink' = Sink /\ args' = args /\ inPos' = inPos
    BY <1>2 DEF Sink, FileOf
  <2>2. args = "into" => content'["term"] = <<>>
    <3>1. args = "into" => f # "term"
      BY <1>3
    <3> QED  BY <1>5, <3>1 DEF IInv, InOrder
  <2>3. ASSUME Sink \in {"target", "term"}, ~shortWrite'
        PROVE  content'[Sink] \o <<>> = SubSeq(content'["source"], 1, inPos)
    <3>1. t = buff /\ ~shortWrite
      <4>1. k = Len(buff) /\ ~shortWrite
        <5>1. ~(shortWrite \/ k < Len(buff))
          BY <1>1, <2>3
        <5>2. k \in Nat /\ k <= Len(buff) /\ Len(buff) \in Nat
          BY <1>4, LenProperties DEF IInv, TypeOK
        <5> QED  BY <5>1, <5>2
      <4>2. buff \in Seq(Nat)
        BY DEF IInv, TypeOK
      <4> QED  BY <4>1, <4>2, SubSeqFull DEF t
    <3>2. f = Sink /\ (args = "into" => ~same) /\ content'["source"] = content["source"]
      <4>1. args = "into" => Sink = FileOf("out") /\ ~same
        BY <2>3 DEF Sink, FileOf
      <4>2. args = "print" => Sink = start1
        BY DEF Sink
      <4>3. f = Sink /\ f # "source"
        BY <1>3, <2>3, <4>1, <4>2
      <4> QED  BY <1>5, <4>1, <4>3
    <3>3. content'[Sink] = content[Sink] \o buff
      BY <1>3, <1>4, <1>10, <3>1, <3>2
    <3>4. content[Sink] \o buff = SubSeq(content["source"], 1, inPos)
      BY <2>3, <3>1 DEF IInv, InOrder
    <3>5. content'[Sink] \in Seq(Nat)
      BY <1>3, <3>2
    <3> QED  BY <3>2, <3>3, <3>4, <3>5, ConcatEmptySeq
  <2> QED  BY <1>2, <2>1, <2>2, <2>3 DEF InOrder
<1> QED  BY <1>7, <1>8, <1>9, <1>12, <1>13, <1>14 DEF IInv

LEMMA GrowStep == IInv /\ Grow => IInv'
<1> SUFFICES ASSUME IInv, Grow PROVE IInv'
  OBVIOUS
<1> USE DEF argVars, fdVars, bufVars, badVars
<1> DEFINE s == content["source"]
           t == <<Len(s) + 1>>
<1>1. /\ pc # "done" /\ Len(s) < Capacity
      /\ content' = [content EXCEPT !["source"] = Append(s, Len(s) + 1)]
      /\ UNCHANGED <<argVars, pc, fdVars, inPos, outPos, bufVars, status, badVars>>
  BY DEF Grow
<1>2. /\ s \in Seq(Nat) /\ Len(s) \in Nat /\ t \in Seq(Nat) /\ inPos \in Nat
      /\ content \in [{"source", "target", "term"} -> Seq(Nat)] /\ Capacity \in Nat
  BY FileTypes, SizeAssumption DEF IInv, ContentInv, TypeOK
<1>3. Append(s, Len(s) + 1) = s \o t
  BY <1>2, AppendIsConcat
<1>4. Len(s \o t) = Len(s) + 1 /\ s \o t \in Seq(Nat)
  BY <1>2, ConcatProperties
<1> HIDE DEF t
<1>5. /\ content'["source"] = s \o t
      /\ content'["target"] = content["target"] /\ content'["term"] = content["term"]
      /\ content' \in [{"source", "target", "term"} -> Seq(Nat)]
  BY <1>1, <1>2, <1>3, <1>4
<1>6. TypeOK'
  <2>1. \A f \in {"source", "target", "term"} : content'[f] \in Seq(Nat) /\ Len(content'[f]) <= Capacity
    BY <1>1, <1>2, <1>4, <1>5, FileTypes
  <2> QED  BY <1>1, <2>1 DEF IInv, TypeOK
<1>7. PhaseInv' /\ EndInv' /\ DescriptorsRestored'
  BY <1>1 DEF IInv, PhaseInv, EndInv, DescriptorsRestored
<1>8. FdInv'
  BY <1>1 DEF IInv, FdInv, StartFds, InFd, OutFd
<1>9. ContentInv'
  <2>1. outPos <= Len(content'[FileOf("out")])
    <3>1. outPos <= Len(content[FileOf("out")]) /\ outPos \in Nat /\ FileOf("out") \in {"source", "target"}
      BY DEF IInv, ContentInv, TypeOK, FileOf
    <3> QED  BY <1>2, <1>4, <1>5, <3>1
  <2>2. ASSUME ~same
        PROVE  IsPrefixOf(Source, s \o t) /\ inPos <= Len(s \o t)
    BY <1>2, <1>4, <2>2, SourceSeq, PrefixStays DEF IInv, ContentInv
  <2> QED  BY <1>1, <1>5, <2>1, <2>2 DEF IInv, ContentInv, FileOf
<1>10. InOrder'
  <2>1. Sink' = Sink
    BY <1>1 DEF Sink, FileOf
  <2>2. ASSUME Sink \in {"target", "term"}
        PROVE  SubSeq(s \o t, 1, inPos) = SubSeq(s, 1, inPos) /\ content'[Sink] = content[Sink]
    <3>1. ~same
      BY <2>2 DEF Sink, FileOf, IInv, PhaseInv
    <3>2. inPos <= Len(s)
      BY <3>1 DEF IInv, ContentInv
    <3> QED  BY <1>2, <1>5, <2>2, <3>2, ReadStays
  <2> QED  BY <1>1, <1>5, <2>1, <2>2 DEF IInv, InOrder
<1> QED  BY <1>6, <1>7, <1>8, <1>9, <1>10 DEF IInv

LEMMA Stays == IInv /\ UNCHANGED vars => IInv'
<1> SUFFICES ASSUME IInv, UNCHANGED vars PROVE IInv'
  OBVIOUS
<1> USE DEF vars, argVars, fileVars, fdVars, bufVars, badVars
<1>1. TypeOK' /\ PhaseInv' /\ EndInv'
  BY DEF IInv, TypeOK, PhaseInv, EndInv
<1>2. FdInv' /\ DescriptorsRestored'
  BY DEF IInv, FdInv, DescriptorsRestored, StartFds, InFd, OutFd
<1>3. ContentInv' /\ InOrder'
  BY FilesSame
<1> QED  BY <1>1, <1>2, <1>3 DEF IInv

--------------------------------------------------------------------------------
(* The theorems *)

\* Every state of mycat satisfies IInv.
THEOREM Inductive == Spec => []IInv
<1>1. Init => IInv
  BY Initially
<1>2. IInv /\ [Next]_vars => IInv'
  <2> SUFFICES ASSUME IInv, [Next]_vars PROVE IInv'
    OBVIOUS
  <2>1. CASE Usage
    BY <2>1, UsageStep
  <2>2. CASE CallFails
    BY <2>2, CallFailsStep
  <2>3. CASE OpenSource
    BY <2>3, OpenSourceStep
  <2>4. CASE OpenTarget
    BY <2>4, OpenTargetStep
  <2>5. CASE Redirect
    BY <2>5, RedirectStep
  <2>6. CASE RedirectFails
    BY <2>6, RedirectFailsStep
  <2>7. CASE Prepare
    BY <2>7, PrepareStep
  <2>8. CASE Read
    BY <2>8, ReadStep
  <2>9. CASE ReadEof \/ ReadFails
    BY <2>9, CopyEndsStep
  <2>10. CASE Write
    BY <2>10, WriteStep
  <2>11. CASE Grow
    BY <2>11, GrowStep
  <2>12. CASE Ended \/ UNCHANGED vars
    BY <2>12, Stays DEF Ended
  <2> QED
    BY <2>1, <2>2, <2>3, <2>4, <2>5, <2>6, <2>7, <2>8, <2>9, <2>10, <2>11, <2>12 DEF Next
<1> QED  BY <1>1, <1>2, PTL DEF Spec

\* The variables of main keep their types, no read asks for more than the buffer holds, and
\* no file grows past the disk.
THEOREM TypeCorrect == Spec => []TypeOK
<1>1. IInv => TypeOK
  BY DEF IInv
<1> QED  BY <1>1, Inductive, PTL

\* Without a short write, the copy and the buffer are the beginning of what the file has, in
\* its order, whatever size the file and the buffer have, however the file grows under the
\* copy and whichever call fails (a file copied into itself excepted).
THEOREM CopyInOrder == Spec => []InOrder
<1>1. IInv => InOrder
  BY DEF IInv
<1> QED  BY <1>1, Inductive, PTL

\* Whichever call fails, main returns with the descriptors it was started with, if dup and
\* dup2 work and descriptor 1 was open.
THEOREM DescriptorsKept == Spec => []DescriptorsRestored
<1>1. IInv => DescriptorsRestored
  BY DEF IInv
<1> QED  BY <1>1, Inductive, PTL

LEMMA LossOnlyIf == IInv => QuietLossOnlyIf
<1> SUFFICES ASSUME IInv, pc = "done", status = 0, args # "usage", Source # <<>>,
                    ~readFailed, ~shortWrite, ~(args = "into" /\ (same \/ start1 = "closed"))
             PROVE  IsPrefixOf(Source, content[Sink])
  BY DEF QuietLossOnlyIf
<1>1. args \in {"usage", "print", "into"} /\ start1 \in {"term", "source", "closed"} /\ ~same
  BY DEF IInv, TypeOK, PhaseInv
<1>2. /\ content["source"] \in Seq(Nat) /\ Len(content["source"]) \in Nat
      /\ IsPrefixOf(Source, content["source"])
  BY <1>1, FileTypes DEF IInv, ContentInv
<1>3. buff = <<>> /\ inPos = Len(content["source"])
  <2>1. buff = <<>> /\ inPos >= Len(content["source"])
    BY DEF IInv, EndInv
  <2>2. inPos <= Len(content["source"]) /\ inPos \in Nat
    BY <1>1 DEF IInv, ContentInv, TypeOK
  <2> QED  BY <1>2, <2>1, <2>2
<1>4. ~(args = "print" /\ start1 = "closed")
  <2> SUFFICES ASSUME args = "print", start1 = "closed" PROVE FALSE
    OBVIOUS
  <2>1. inPos = 0
    BY DEF IInv, EndInv
  <2>2. Source \in Seq(Nat) /\ Len(Source) = 0
    BY <1>2, <1>3, <2>1, SourceSeq, SizeAssumption DEF IsPrefixOf
  <2> QED  BY <2>2, EmptySeq
<1>5. CASE Sink = "source"
  BY <1>2, <1>5
<1>6. CASE Sink \in {"target", "term"}
  <2>1. content[Sink] \o buff = SubSeq(content["source"], 1, inPos)
    BY <1>6 DEF IInv, InOrder
  <2>2. content[Sink] \in Seq(Nat)
    BY <1>6, FileTypes
  <2>3. content[Sink] = content["source"]
    BY <1>2, <1>3, <2>1, <2>2, ConcatEmptySeq, SubSeqFull
  <2> QED  BY <1>2, <2>3
<1> QED  BY <1>1, <1>4, <1>5, <1>6 DEF Sink, FileOf

\* A 0 for an incomplete copy has one of the four causes, for files and buffers of any size.
THEOREM LossHasACause == Spec => []QuietLossOnlyIf
  BY LossOnlyIf, Inductive, PTL
================================================================================
