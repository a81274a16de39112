--------------------------------- MODULE MyCat ---------------------------------
(****************************************************************************)
(* io_lab/mycat.c copies a file to descriptor 1, which "into" first turns   *)
(* into another file.  The descriptors are the table the kernel keeps, in   *)
(* which open and dup take the lowest free entry.  Every call may fail,     *)
(* writes may be short, and others may append to the file being copied.     *)
(****************************************************************************)
EXTENDS Integers, Sequences

CONSTANTS
    InSize,     \* bytes in the file at the start
    MinBuf,     \* the size of the buffer for a file that fstat says is empty
    Capacity    \* bound: the size of a file that fills the disk

ASSUME SizeAssumption == InSize \in Nat /\ MinBuf \in Nat \ {0} /\ Capacity \in Nat /\ InSize <= Capacity

VARIABLES
    args,       \* what the arguments ask for: "usage", "print" or "into"
    same,       \* "into" names the source itself
    start1,     \* what descriptor 1 is at the start: "term", "source" (with >>) or "closed"
    pc,         \* how far main has come
    fds,        \* the descriptor table: which open file each entry refers to
    content,    \* the bytes of each file
    inPos,      \* the position of the open file fd
    outPos,     \* and of out_fd
    fd, out_fd, saved_stdout,
    buff,       \* what the last read has put into the buffer
    buff_size,
    status,     \* what main has returned
    readFailed, shortWrite, dupFailed   \* history: what has gone wrong (dup or dup2)

argVars  == <<args, same, start1>>
fileVars == <<content, inPos, outPos>>
fdVars   == <<fds, fd, out_fd, saved_stdout>>
bufVars  == <<buff, buff_size>>
badVars  == <<readFailed, shortWrite, dupFailed>>
vars     == <<argVars, pc, fdVars, fileVars, bufVars, status, badVars>>

Fd == 0..5

Source == [i \in 1..InSize |-> i]

\* 0 and 2 are open throughout.
StartFds ==
    [n \in Fd |-> IF n \in {0, 2} THEN "other"
                  ELSE IF n = 1 /\ start1 # "closed" THEN "start" ELSE "closed"]

Init ==
    /\ args \in {"usage", "print", "into"}
    /\ same \in BOOLEAN /\ (same => args = "into")
    /\ start1 \in {"term", "source", "closed"}
    /\ pc = "start" /\ status = 0
    /\ fds = StartFds /\ fd = -1 /\ out_fd = -1 /\ saved_stdout = -1
    /\ content = [f \in {"source", "target", "term"} |-> IF f = "source" THEN Source ELSE <<>>]
    /\ inPos = 0 /\ outPos = 0
    /\ buff = <<>> /\ buff_size = 0
    /\ readFailed = FALSE /\ shortWrite = FALSE /\ dupFailed = FALSE

FileOf(d) == CASE d = "in"    -> "source"
               [] d = "out"   -> IF same THEN "source" ELSE "target"
               [] d = "start" -> start1

--------------------------------------------------------------------------------
(* The descriptor table *)

Lowest(t) == CHOOSE n \in Fd : t[n] = "closed" /\ \A m \in 0..(n - 1) : t[m] # "closed"

Opened(t, d) == [t EXCEPT ![Lowest(t)] = d]

\* Both calls fail for -1, and nobody looks.
Closed(t, n)  == IF n = -1 THEN t ELSE [t EXCEPT ![n] = "closed"]
Dup2(t, m, n) == IF m = -1 THEN t ELSE [t EXCEPT ![n] = t[m]]

\* dup2 without the close after it (mutant).
RestoredLeavesCopy(t) == Dup2(t, saved_stdout, 1)

\* dup2(saved_stdout, 1) and close(saved_stdout), if "into" has come so far.
Restored(t) == Closed(Dup2(t, saved_stdout, 1), saved_stdout)

Return(code) ==
    /\ pc' = "done" /\ status' = code
    /\ UNCHANGED <<argVars, fd, out_fd, saved_stdout, bufVars>>

\* The way out of the loop.
CopyEnds == fds' = Closed(Restored(fds), fd) /\ Return(0)

--------------------------------------------------------------------------------
(* main *)

\* "No arguments" and "Wrong arguments".
Usage ==
    /\ pc = "start" /\ args = "usage"
    /\ Return(0)
    /\ UNCHANGED <<fds, fileVars, badVars>>

\* An open, fstat, malloc or write that fails: what has been opened is closed, and descriptor 1
\* put back, if fd and saved_stdout have been set.
CallFails ==
    /\ pc \in {"start", "openTarget", "prepare", "write"} /\ args # "usage"
    /\ fds' = Restored(Closed(fds, fd)) /\ Return(1)
    /\ UNCHANGED <<fileVars, badVars>>

OpenSource ==
    /\ pc = "start" /\ args # "usage"
    /\ pc' = IF args = "into" THEN "openTarget" ELSE "prepare"
    /\ fd' = Lowest(fds) /\ fds' = Opened(fds, "in")
    /\ UNCHANGED <<argVars, out_fd, saved_stdout, fileVars, bufVars, status, badVars>>

\* O_TRUNC empties the file, the source if that is its name.
OpenTarget ==
    /\ pc = "openTarget" /\ pc' = "redirect"
    /\ out_fd' = Lowest(fds) /\ fds' = Opened(fds, "out")
    /\ content' = [content EXCEPT ![FileOf("out")] = <<>>]
    /\ UNCHANGED <<argVars, fd, saved_stdout, inPos, outPos, bufVars, status, badVars>>

\* What dup(1) answers: it may fail, and nobody looks.
DupAnswers == {Lowest(fds), -1}

Saved(n) == IF n = -1 THEN fds ELSE Opened(fds, fds[1])

\* A dup2 whose failure nobody looks for either (mutant).
RedirectUnchecked ==
    /\ pc = "redirect" /\ pc' = "prepare"
    /\ \E n \in DupAnswers :
          saved_stdout' = n /\ dupFailed' = (n = -1) /\ fds' = Closed(Saved(n), out_fd)
    /\ UNCHANGED <<argVars, fd, out_fd, fileVars, bufVars, status, readFailed, shortWrite>>

Redirect ==
    /\ pc = "redirect" /\ pc' = "prepare"
    /\ \E n \in DupAnswers :
          /\ saved_stdout' = n /\ dupFailed' = (n = -1)
          /\ fds' = Closed(Dup2(Saved(n), out_fd, 1), out_fd)
    /\ UNCHANGED <<argVars, fd, out_fd, fileVars, bufVars, status, readFailed, shortWrite>>

\* dup2 fails: what dup has opened stays open.
RedirectFails ==
    /\ pc = "redirect" /\ dupFailed' = TRUE
    /\ \E n \in DupAnswers : fds' = Closed(Closed(Saved(n), fd), out_fd)
    /\ Return(1)
    /\ UNCHANGED <<fileVars, readFailed, shortWrite>>

\* fstat, which says 0 for some files that have contents, and malloc.
Prepare ==
    /\ pc = "prepare" /\ pc' = "read"
    /\ \E size \in {0, Len(content[FileOf(fds[fd])])} :
          buff_size' = IF size > 0 THEN size ELSE MinBuf
    /\ UNCHANGED <<argVars, fdVars, fileVars, buff, status, badVars>>

Left == Len(content["source"]) - inPos

\* read asked for all of the file as it is by now (mutant).
ReadAll ==
    /\ pc = "read" /\ fds[fd] = "in" /\ Left > 0
    /\ buff' = SubSeq(content["source"], inPos + 1, inPos + Left)
    /\ inPos' = inPos + Left
    /\ pc' = "write"
    /\ UNCHANGED <<argVars, fdVars, content, outPos, buff_size, status, badVars>>

Read ==
    /\ pc = "read" /\ fds[fd] = "in" /\ Left > 0
    /\ LET nreads == IF Left < buff_size THEN Left ELSE buff_size
       IN  /\ buff' = SubSeq(content["source"], inPos + 1, inPos + nreads)
           /\ inPos' = inPos + nreads
    /\ pc' = "write"
    /\ UNCHANGED <<argVars, fdVars, content, outPos, buff_size, status, badVars>>

ReadEof ==
    /\ pc = "read" /\ fds[fd] = "in" /\ Left <= 0
    /\ CopyEnds
    /\ UNCHANGED <<fileVars, badVars>>

\* -1 ends the loop as 0 does: read fails, or fd is not open for reading.
ReadFails ==
    /\ pc = "read"
    /\ readFailed' = (fds[fd] = "in")
    /\ CopyEnds
    /\ UNCHANGED <<fileVars, shortWrite, dupFailed>>

Overwritten(s, p, t) == SubSeq(s, 1, p) \o t \o SubSeq(s, p + Len(t) + 1, Len(s))

\* k bytes go into the file descriptor 1 refers to, at its end unless it is out_fd's.
Put(k) ==
    LET d == fds[1]
        f == FileOf(d)
        p == IF d = "out" THEN outPos ELSE Len(content[f])
    IN  /\ d \in {"out", "start"}
        /\ p + k <= Capacity
        /\ content' = [content EXCEPT ![f] = Overwritten(@, p, SubSeq(buff, 1, k))]
        /\ outPos' = IF d = "out" THEN p + k ELSE outPos

\* if in the place of while (mutant).
WriteOnce ==
    /\ pc = "write"
    /\ \E k \in 1..Len(buff) : Put(k) /\ shortWrite' = (shortWrite \/ k < Len(buff))
    /\ CopyEnds
    /\ UNCHANGED <<inPos, readFailed, dupFailed>>

\* A short write is a write: what it left over is not written.
Write ==
    /\ pc = "write" /\ pc' = "read"
    /\ \E k \in 1..Len(buff) : Put(k) /\ shortWrite' = (shortWrite \/ k < Len(buff))
    /\ buff' = <<>>
    /\ UNCHANGED <<argVars, fdVars, inPos, buff_size, status, readFailed, dupFailed>>

\* Somebody else appends a byte to the file.
Grow ==
    /\ pc # "done" /\ Len(content["source"]) < Capacity
    /\ content' = [content EXCEPT !["source"] = Append(@, Len(@) + 1)]
    /\ UNCHANGED <<argVars, pc, fdVars, inPos, outPos, bufVars, status, badVars>>

Ended == pc = "done" /\ UNCHANGED vars

Next ==
    \/ Usage \/ CallFails
    \/ OpenSource \/ OpenTarget \/ Redirect \/ RedirectFails \/ Prepare
    \/ Read \/ ReadEof \/ ReadFails \/ Write
    \/ Grow \/ Ended

Spec == Init /\ [][Next]_vars

--------------------------------------------------------------------------------
(* Properties *)

Open == {"closed", "other", "in", "out", "start"}

\* The types, with the buffer long enough for every read even if the file has grown since fstat.
TypeOK ==
    /\ args \in {"usage", "print", "into"} /\ same \in BOOLEAN
    /\ start1 \in {"term", "source", "closed"}
    /\ pc \in {"start", "openTarget", "redirect", "prepare", "read", "write", "done"}
    /\ status \in {0, 1}
    /\ fds \in [Fd -> Open]
    /\ fd \in Fd \cup {-1} /\ out_fd \in Fd \cup {-1} /\ saved_stdout \in Fd \cup {-1}
    /\ \A f \in {"source", "target", "term"} : content[f] \in Seq(Nat) /\ Len(content[f]) <= Capacity
    /\ inPos \in Nat /\ outPos \in Nat
    /\ buff \in Seq(Nat) /\ buff_size \in Nat /\ Len(buff) <= buff_size
    /\ readFailed \in BOOLEAN /\ shortWrite \in BOOLEAN /\ dupFailed \in BOOLEAN

IsPrefixOf(s, t) == Len(s) <= Len(t) /\ s = SubSeq(t, 1, Len(s))

\* Where the copy goes.
Sink == IF args = "into" THEN FileOf("out") ELSE start1

\* 0 is returned for an incomplete copy only if a read failed or a write was short, if a file
\* was copied into itself, or if descriptor 1 was closed, so that the source took its place
\* and was itself replaced by the target. Otherwise the copy has all that was in the file at
\* the start, however fstat and the file's growth have cut it into reads.
QuietLossOnlyIf ==
    pc = "done" /\ status = 0 /\ args # "usage" =>
        \/ Source = <<>>
        \/ readFailed \/ shortWrite
        \/ args = "into" /\ (same \/ start1 = "closed")
        \/ IsPrefixOf(Source, content[Sink])

\* At any time the bytes written and those in the buffer are the bytes read, in their order,
\* whatever has failed (but for a short write, or a file copied into itself), and "into"
\* writes nothing to what descriptor 1 was before.
InOrder ==
    /\ Sink \in {"target", "term"} /\ ~shortWrite =>
         content[Sink] \o buff = SubSeq(content["source"], 1, inPos)
    /\ args = "into" => content["term"] = <<>>

\* main returns with the descriptors it was started with, if dup and dup2 work and
\* descriptor 1 was open.
DescriptorsRestored ==
    pc = "done" /\ ~dupFailed /\ start1 # "closed" => fds = StartFds

--------------------------------------------------------------------------------
(* The inductive invariant the proofs use *)

\* What main has set by when.
PhaseInv ==
    /\ pc # "done" => status = 0
    /\ pc \in {"start", "openTarget", "redirect", "prepare"} => inPos = 0 /\ outPos = 0
    /\ pc \in {"start", "openTarget", "redirect", "prepare", "read"} => buff = <<>>
    /\ pc \in {"read", "write"} => buff_size > 0
    /\ pc \in {"openTarget", "redirect"} => args = "into"
    /\ pc \in {"prepare", "read", "write"} => args # "usage"
    /\ pc \in {"start", "openTarget", "redirect"} \/ args # "into" => ~dupFailed
    /\ same => args = "into"

\* The descriptors main gets: 1 and 3 for the source and the target if 1 is free.
InFd  == IF start1 = "closed" THEN 1 ELSE 3
OutFd == IF start1 = "closed" THEN 3 ELSE 4

\* The descriptor table at each point of main.
FdInv ==
    /\ pc = "start" => fds = StartFds /\ fd = -1 /\ saved_stdout = -1
    /\ pc = "openTarget" =>
         fds = [StartFds EXCEPT ![InFd] = "in"] /\ fd = InFd /\ saved_stdout = -1
    /\ pc = "redirect" =>
         /\ fds = [StartFds EXCEPT ![InFd] = "in", ![OutFd] = "out"]
         /\ fd = InFd /\ out_fd = OutFd /\ saved_stdout = -1
    /\ pc \in {"prepare", "read", "write"} =>
         /\ fd = InFd
         /\ args = "print" => fds = [StartFds EXCEPT ![InFd] = "in"] /\ saved_stdout = -1
         /\ args = "into" => fds[1] = "out"
         /\ args = "into" /\ start1 # "closed" =>
              IF dupFailed
              THEN fds = [StartFds EXCEPT ![1] = "out", ![3] = "in"] /\ saved_stdout = -1
              ELSE /\ fds = [StartFds EXCEPT ![1] = "out", ![3] = "in", ![5] = "start"]
                   /\ saved_stdout = 5

\* Nothing of the source goes away, and the target has been written from its beginning.
ContentInv ==
    /\ content \in [{"source", "target", "term"} -> Seq(Nat)]
    /\ outPos <= Len(content[FileOf("out")])
    /\ ~same => /\ IsPrefixOf(Source, content["source"])
                /\ inPos <= Len(content["source"])
                /\ outPos = Len(content["target"])

\* If main has come to its end by the end of the file, it has written all of it.
EndInv ==
    /\ args = "print" /\ start1 = "closed" /\ pc # "write" /\ status = 0 => inPos = 0
    /\ pc = "done" /\ status = 0 /\ args # "usage" /\ ~readFailed =>
         \/ args = "into" /\ start1 = "closed"
         \/ buff = <<>> /\ inPos >= Len(content["source"])

IInv ==
    TypeOK /\ PhaseInv /\ FdInv /\ ContentInv /\ EndInv /\ InOrder /\ DescriptorsRestored
================================================================================
