------------------------------- MODULE SampleStore -------------------------------
(****************************************************************************)
(* The life of the store of kvs_lab_sample: main.c with kvs_open, the       *)
(* workload's puts, do_snapshot, the restart and the second do_recovery, in *)
(* the two programs the Makefile builds from do_baseline.c and do_custom.c, *)
(* either of which may be run on the ./kvs.img the other has left.  The     *)
(* file is what a read sees (img) and what an fsync has made durable        *)
(* (disk); the program may be killed and the machine may lose power.        *)
(****************************************************************************)
EXTENDS SnapshotImage

CONSTANTS
    Key,        \* the keys of the workload, strings
    Value,      \* its values, strings
    NoValue,    \* the value field of a node whose strdup failed
    NoFile,     \* there is no ./kvs.img
    None,       \* no program; no snapshot reported successful since the last O_TRUNC
    Builds,     \* the programs that are run: "baseline", "custom" or both
    Chunk,      \* MAX_BUFFER_SIZE of do_custom.c
    Fault,      \* the kinds of faults that may happen
    MaxFaults   \* how many may

FaultKinds == {"crash", "power", "oom", "full", "io", "read"}

ASSUME BuildsAssumption == Builds \subseteq {"baseline", "custom"} /\ Builds # {}
ASSUME ChunkAssumption == Chunk \in Nat \ {0}
\* A line of the trace has three fields and no CR (13): fscanf ends a key at a comma and a
\* value, which may hold commas, at white space.
ASSUME StringAssumption == /\ Key \subseteq Seq((1..255) \ {Comma, Newline, 13})
                           /\ Value \subseteq Seq((1..255) \ {Newline, 13})
ASSUME NoFileAssumption == NoFile \notin Seq(0..255)
ASSUME FaultAssumption == Fault \subseteq FaultKinds /\ MaxFaults \in Nat

VARIABLES
    build,      \* the program that runs, None if none does
    pc,         \* how far main has come
    store,      \* the nodes of the skip list: store[k] is the value under k
    loaded,     \* the last do_recovery returned 0
    rest,       \* the keys do_snapshot's iterator has not reached
    img,        \* the contents of ./kvs.img
    disk,       \* the contents a power failure cannot take away
    dirty,      \* ./kvs.img has changed since the last fsync
    written,    \* the pairs the program meant to put into img
    synced,     \* the pairs the program meant to put into disk
    promised,   \* the pairs of the last snapshot reported successful, None if truncated
    holed,      \* which of "img" and "disk" came from a short write nobody noticed
    faults      \* the faults so far

fileVars  == <<img, disk, dirty>>
ghostVars == <<written, synced, promised, holed>>
vars      == <<build, pc, store, loaded, rest, fileVars, ghostVars, faults>>

Happens(f) == f \in Fault /\ faults < MaxFaults /\ faults' = faults + 1

\* holed, once img and disk are the same again, as file f was.
HoledBoth(f) == IF f \in holed THEN {"img", "disk"} ELSE {}

\* The size of the buffer do_recovery reads into: the file's, or MAX_BUFFER_SIZE.
Buffer(b, image) == IF b = "baseline" THEN Len(image) + 1 ELSE Chunk

\* What do_recovery of program b puts.
FileMap(b, image) ==
    IF image = NoFile THEN EmptyStore ELSE Recovered(image, Buffer(b, image))

\* The pairs do_snapshot writes: keys whose value is NULL are skipped.
Writable(s) == [k \in {l \in DOMAIN s : s[l] # NoValue} |-> s[k]]

Init ==
    /\ build = None /\ pc = "off" /\ store = EmptyStore /\ loaded = FALSE /\ rest = {}
    /\ img = NoFile /\ disk = NoFile /\ dirty = FALSE
    /\ written = EmptyStore /\ synced = EmptyStore /\ promised = None
    /\ holed = {} /\ faults = 0

--------------------------------------------------------------------------------
(* do_recovery of program b over the store s *)

\* put answers 0 to do_recovery too when its strdup fails: the key keeps no value.
RecoverySucceeds(b, s) ==
    /\ img # NoFile
    /\ \/ store' = Overlay(s, FileMap(b, img)) /\ UNCHANGED faults
       \/ /\ Happens("oom")
          /\ \E k \in DOMAIN FileMap(b, img) :
                store' = [Overlay(s, FileMap(b, img)) EXCEPT ![k] = NoValue]

\* What of the image has been put when a read fails: nothing, or whole buffers.
ReadBeforeError(b) ==
    IF b = "baseline" THEN {<<>>}
    ELSE {SubSeq(img, 1, n) : n \in {m \in 0..Len(img) : m % Chunk = 0 \/ m = Len(img)}}

RecoveryFails(b, s) ==
    \/ img = NoFile /\ store' = s /\ UNCHANGED faults
    \/ /\ img # NoFile
       /\ Happens("read")
       /\ \E part \in ReadBeforeError(b) : store' = Overlay(s, FileMap(b, part))

\* kvs_open, if do_recovery returned 0 after a failed read too (mutant).
KvsOpenIgnoresReadError(b) ==
    /\ RecoverySucceeds(b, EmptyStore) \/ RecoveryFails(b, EmptyStore)
    /\ loaded' = (img # NoFile)

\* kvs_open: a recovery that fails, for whatever reason, is "No snapshot found".
KvsOpen(b) ==
    \/ RecoverySucceeds(b, EmptyStore) /\ loaded' = TRUE
    \/ RecoveryFails(b, EmptyStore) /\ loaded' = FALSE

\* main has returned, or is dead.
Ends ==
    /\ pc' = "off" /\ build' = None
    /\ store' = EmptyStore /\ loaded' = FALSE /\ rest' = {}

--------------------------------------------------------------------------------
(* main, up to the snapshot *)

Start ==
    /\ pc = "off" /\ pc' = "opened"
    /\ build' \in Builds /\ KvsOpen(build')
    /\ UNCHANGED <<rest, fileVars, ghostVars>>

OpenFiles ==
    /\ pc = "opened" /\ pc' = "work"
    /\ UNCHANGED <<build, store, loaded, rest, fileVars, ghostVars, faults>>

\* cluster004.trc is missing: no snapshot is taken.
FilesMissing ==
    /\ pc = "opened"
    /\ Ends
    /\ UNCHANGED <<fileVars, ghostVars, faults>>

Set ==
    /\ pc = "work"
    /\ \E k \in Key, v \in Value : store' = Overlay(store, [l \in {k} |-> v])
    /\ UNCHANGED <<build, pc, loaded, rest, fileVars, ghostVars, faults>>

\* strdup fails: the old value is gone, value is NULL, and put returns 0.
SetOutOfMemory ==
    /\ pc = "work"
    /\ Happens("oom")
    /\ \E k \in Key : store' = Overlay(store, [l \in {k} |-> NoValue])
    /\ UNCHANGED <<build, pc, loaded, rest, fileVars, ghostVars>>

--------------------------------------------------------------------------------
(* do_snapshot *)

\* O_APPEND in the place of O_TRUNC (mutant).
SnapOpenAppends ==
    /\ pc = "work" /\ pc' = "snap"
    /\ img' = (IF img = NoFile THEN <<>> ELSE img) /\ dirty' = TRUE
    /\ rest' = DOMAIN store
    /\ written' = Writable(store) /\ promised' = None /\ holed' = holed \ {"img"}
    /\ UNCHANGED <<build, store, loaded, disk, synced, faults>>

SnapOpen ==
    /\ pc = "work" /\ pc' = "snap"
    /\ img' = <<>> /\ dirty' = TRUE
    /\ rest' = DOMAIN store
    /\ written' = Writable(store) /\ promised' = None /\ holed' = holed \ {"img"}
    /\ UNCHANGED <<build, store, loaded, disk, synced, faults>>

SnapOpenFails ==
    /\ pc = "work"
    /\ Happens("io")
    /\ Ends
    /\ UNCHANGED <<fileVars, ghostVars>>

\* The iterator walks the list in the order of strcmp.
NextKey == CHOOSE k \in rest : \A l \in rest \ {k} : StrLess(k, l)

SnapWrite ==
    /\ pc = "snap" /\ rest # {}
    /\ img' = IF store[NextKey] = NoValue THEN img
              ELSE img \o Line(NextKey, store[NextKey])
    /\ rest' = rest \ {NextKey}
    /\ UNCHANGED <<build, pc, store, loaded, disk, dirty, ghostVars, faults>>

\* The disk is full: do_custom.c notices the short write, do_baseline.c does not.
SnapWriteShort ==
    /\ pc = "snap" /\ rest # {} /\ store[NextKey] # NoValue
    /\ Happens("full")
    /\ LET line == Line(NextKey, store[NextKey])
       IN  \E n \in 0..(Len(line) - 1) : img' = img \o SubSeq(line, 1, n)
    /\ IF build = "custom"
         THEN Ends /\ UNCHANGED holed
         ELSE /\ rest' = rest \ {NextKey} /\ holed' = holed \cup {"img"}
              /\ UNCHANGED <<build, pc, store, loaded>>
    /\ UNCHANGED <<disk, dirty, written, synced, promised>>

\* do_snapshot without its fsync (mutant).
SnapSyncSkipped ==
    /\ pc = "snap" /\ rest = {} /\ pc' = "saved"
    /\ promised' = written
    /\ UNCHANGED <<build, store, loaded, rest, fileVars, written, synced, holed, faults>>

SnapSync ==
    /\ pc = "snap" /\ rest = {} /\ pc' = "saved"
    /\ disk' = img /\ dirty' = FALSE
    /\ synced' = written /\ promised' = written /\ holed' = HoledBoth("img")
    /\ UNCHANGED <<build, store, loaded, rest, img, written, faults>>

SnapSyncFails ==
    /\ pc = "snap" /\ rest = {}
    /\ Happens("io")
    /\ Ends
    /\ UNCHANGED <<fileVars, ghostVars>>

--------------------------------------------------------------------------------
(* main, after the snapshot *)

\* kvs_close, and kvs_open again.
Reopen ==
    /\ pc = "saved" /\ pc' = "reopened"
    /\ KvsOpen(build)
    /\ UNCHANGED <<build, rest, fileVars, ghostVars>>

ReopenFails ==
    /\ pc = "saved"
    /\ Happens("io")
    /\ Ends
    /\ UNCHANGED <<fileVars, ghostVars>>

\* main recovers a second time, into the store kvs_open has already filled.
RecoverAgain ==
    /\ pc = "reopened"
    /\ RecoverySucceeds(build, store)
    /\ pc' = "verified"
    /\ UNCHANGED <<build, loaded, rest, fileVars, ghostVars>>

RecoverAgainFails ==
    /\ pc = "reopened"
    /\ Happens("read")
    /\ Ends
    /\ UNCHANGED <<fileVars, ghostVars>>

Exit ==
    /\ pc = "verified"
    /\ Ends
    /\ UNCHANGED <<fileVars, ghostVars, faults>>

--------------------------------------------------------------------------------
(* The environment *)

\* What a do_snapshot killed inside dprintf or write has written of the next line.
PartialWrites ==
    IF pc = "snap" /\ rest # {} /\ store[NextKey] # NoValue
      THEN LET line == Line(NextKey, store[NextKey])
           IN  {SubSeq(line, 1, n) : n \in 0..Len(line)}
      ELSE {<<>>}

\* The process dies (a NULL from malloc, a signal); the page cache survives.
Crash ==
    /\ pc # "off"
    /\ Happens("crash")
    /\ Ends
    /\ \E part \in PartialWrites : img' = IF part = <<>> THEN img ELSE img \o part
    /\ UNCHANGED <<disk, dirty, ghostVars>>

\* Of a file that was truncated and written since the last fsync, the old contents or
\* a prefix of the new ones survive; disk and img are the same again afterwards.
PowerFail ==
    /\ Happens("power")
    /\ Ends
    /\ dirty' = FALSE
    /\ \/ img' = disk /\ written' = synced /\ holed' = HoledBoth("disk")
       \/ /\ dirty
          /\ \E n \in 0..Len(img) : img' = SubSeq(img, 1, n)
          /\ written' = written /\ holed' = HoledBoth("img")
    /\ disk' = img' /\ synced' = written'
    /\ UNCHANGED promised

Next ==
    \/ Start \/ OpenFiles \/ FilesMissing \/ Set \/ SetOutOfMemory
    \/ SnapOpen \/ SnapOpenFails \/ SnapWrite \/ SnapWriteShort \/ SnapSync \/ SnapSyncFails
    \/ Reopen \/ ReopenFails \/ RecoverAgain \/ RecoverAgainFails \/ Exit
    \/ Crash \/ PowerFail

Spec == Init /\ [][Next]_vars

--------------------------------------------------------------------------------
(* Properties *)

IsString(s) == s \in Seq(0..255)
IsStore(s)  == \A k \in DOMAIN s : IsString(k) /\ (s[k] = NoValue \/ IsString(s[k]))

\* The types of main's progress, the store, the file and the history kept about it.
TypeOK ==
    /\ pc \in {"off", "opened", "work", "snap", "saved", "reopened", "verified"}
    /\ IsStore(store) /\ IsStore(written) /\ IsStore(synced)
    /\ promised = None \/ IsStore(promised)
    /\ build \in Builds \cup {None} /\ holed \subseteq {"img", "disk"}
    /\ loaded \in BOOLEAN /\ dirty \in BOOLEAN
    /\ rest \subseteq DOMAIN store
    /\ img = NoFile \/ IsString(img)
    /\ disk = NoFile \/ IsString(disk)
    /\ faults \in 0..MaxFaults

\* Once do_snapshot has returned 0, and until the next one truncates the file, the file
\* and what a power failure leaves of it both decode to the pairs that were in memory,
\* in either program, and every later kvs_open and do_recovery that reads the file to its
\* end restores them, but for a value that a failed strdup of put has lost. The one
\* exception is a short write that do_baseline.c has not noticed.
PromiseKept ==
    promised # None /\ holed = {} =>
        /\ \A b \in Builds : FileMap(b, img) = promised /\ FileMap(b, disk) = promised
        /\ loaded /\ pc \in {"opened", "reopened", "verified"} =>
             /\ DOMAIN store = DOMAIN promised
             /\ \A k \in DOMAIN store :
                  store[k] # promised[k] => store[k] = NoValue /\ "oom" \in Fault /\ faults > 0

IsPrefixOf(s, t) == Len(s) <= Len(t) /\ s = SubSeq(t, 1, Len(s))

\* s holds the pairs of t up to some key, the last one perhaps with its value cut short.
IsTornCopy(s, t) ==
    \A k \in DOMAIN s :
        /\ k \in DOMAIN t /\ IsPrefixOf(s[k], t[k])
        /\ \A l \in DOMAIN t : StrLess(l, k) => l \in DOMAIN s /\ s[l] = t[l]

\* A snapshot cut off by a crash, a power failure or a noticed short write is still
\* recovered by either program as the first keys of one snapshot, only the last value of
\* which may be cut short: nothing of an older image shows through and no two records run
\* together.
TornTail ==
    \A b \in Builds :
        /\ "img" \notin holed => IsTornCopy(FileMap(b, img), written)
        /\ "disk" \notin holed => IsTornCopy(FileMap(b, disk), synced)

\* The O_TRUNC of do_snapshot destroys no key the program has not got in memory, if
\* kvs_open said it had recovered the image it destroys.
NothingForgotten ==
    [][pc = "work" /\ pc' = "snap" /\ loaded =>
          DOMAIN FileMap(build, img) \subseteq DOMAIN store]_vars

--------------------------------------------------------------------------------
(* What the program prints, and what is not always so *)

\* main.c:52, "Snapshot completed successfully": the file holds every pair.
SuccessMeansComplete == pc = "saved" => FileMap(build, img) = written

\* do_custom.c:106, "Recovery completed successfully": the store has the image's pairs.
RecoveryMeansComplete == pc = "reopened" /\ loaded => store = written
================================================================================
