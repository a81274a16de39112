------------------------------ MODULE QueryDriver ------------------------------
(****************************************************************************)
(* kvs_lab/main.c: the loop over query.dat, whose fscanf takes up to three  *)
(* fields and is compared with EOF only, and what it puts into answer.dat.  *)
(* The store is the map of KeyValueMap.  A character is "set", "get", a     *)
(* comma, a newline or any other; widths are counted in those.              *)
(****************************************************************************)
EXTENDS Integers, Sequences, SequencesExt, FiniteSetsExt, Functions

CONSTANTS
    Char,       \* the characters of a line
    Line,       \* the lines of a file, each the sequence of its fields
    MaxLines,   \* bound: the lines of a file
    CommandWidth, KeyWidth, ValueWidth,     \* 9, 99 and 99 in the source
    MaxAnswers  \* bound: the answers the model keeps

Comma   == ","
Newline == "newline"

ASSUME LineAssumption ==
    /\ Comma \in Char /\ Newline \notin Char
    /\ Line \subseteq Seq(Seq(Char))
    /\ \A line \in Line :
          /\ Len(line) \in 1..3
          /\ \A n \in 1..Len(line) : n < 3 => Comma \notin Range(line[n])

ASSUME WidthAssumption == {CommandWidth, KeyWidth, ValueWidth} \subseteq Nat \ {0}

ASSUME BoundAssumption == MaxLines \in Nat /\ MaxAnswers \in Nat /\ MaxLines <= MaxAnswers

\* A line as it is in the file: at most three fields, of which the last may hold commas.
Render(line) == line[1] \o FlattenSeq([n \in 1..(Len(line) - 1) |-> <<Comma>> \o line[n + 1]])

VARIABLES
    lines,      \* the lines of query.dat
    text,       \* its characters
    mainPc,     \* the point main has reached
    opened,     \* which of the two files could be opened
    pos,        \* how many characters have been read
    args,       \* command, key and value
    converted,  \* what fscanf has answered, or how far it is
    store,      \* the pairs of my_kvs
    answers,    \* what has been written to answer.dat
    start,      \* history: where fscanf began
    lost,       \* history: a put has failed, which main does not look at
    obeyed      \* history: the lines that were read as they are

fileVars  == <<lines, text, opened>>
scanVars  == <<pos, args, converted, start, obeyed>>
storeVars == <<store, answers, lost>>
mainVars  == <<fileVars, mainPc, scanVars, storeVars>>

\* The arrays are not initialised; command may hold a command.
MainInit ==
    /\ lines \in UNION {[1..n -> Line] : n \in 0..MaxLines}
    /\ \E last \in {<<>>, <<Newline>>} :
          text = FlattenSeq([n \in DOMAIN lines |->
                    Render(lines[n]) \o IF n < Len(lines) THEN <<Newline>> ELSE last])
    /\ mainPc = "open" /\ opened = {} /\ pos = 0 /\ start = 0
    /\ args \in {<<c, <<"junk">>, <<"junk">>>> : c \in {<<"get">>, <<"junk">>}}
    /\ converted = 0
    /\ store = [k \in {} |-> <<>>] /\ answers = <<>>
    /\ lost = FALSE /\ obeyed = {}

--------------------------------------------------------------------------------
(* main *)

\* Either file may be missing, which main does not look at; without a store it gives up.
Open ==
    /\ mainPc = "open" /\ mainPc' \in {"scan", "failed"}
    /\ opened' \in SUBSET {"query", "answer"}
    /\ UNCHANGED <<lines, text, scanVars, storeVars>>

\* A NULL queryFile or answerFile is used.
Dies ==
    /\ \/ mainPc = "scan" /\ "query" \notin opened
       \/ mainPc = "act" /\ args[1] = <<"get">> /\ "answer" \notin opened
       \/ mainPc = "close" /\ "answer" \notin opened
    /\ mainPc' = "died"
    /\ UNCHANGED <<fileVars, scanVars, storeVars>>

(* fscanf(queryFile, "%9[^,],%99[^,],%99[^\n]\n", command, key, value) *)

Width == <<CommandWidth, KeyWidth, ValueWidth>>

\* "%99[^,]" for the value too (mutant).
StopAtComma == <<Comma, Comma, Comma>>

Stop == <<Comma, Comma, Newline>>

At(p, c) == p < Len(text) /\ text[p + 1] = c

\* Where a run of characters of Chars that begins at p ends, after width of them at the latest.
EndOfRun(p, width, Chars) ==
    CHOOSE q \in p..Min({p + width, Len(text)}) :
        /\ \A r \in (p + 1)..q : text[r] \in Chars
        /\ q = p + width \/ q = Len(text) \/ text[q + 1] \notin Chars

\* Where the conversion c ends.
Taken(c) == EndOfRun(pos, Width[c], Range(text) \ {Stop[c]})

\* A format that ends in %99[^\n] (mutant).
SkippedNothing(p) == p

\* The newline of the format: white space, as much as there is.
Skipped(p) == EndOfRun(p, Len(text), {Newline})

\* Where line n starts in the file.
Start(n) == Len(FlattenSeq([m \in 1..(n - 1) |-> Append(Render(lines[m]), Newline)]))

\* One conversion and what the format has behind it; the call ends with the first that fails.
Convert ==
    /\ mainPc = "scan" /\ "query" \in opened
    /\ \E c \in {converted + 1}, end \in {Taken(converted + 1)} :
          LET goes == c < 3 /\ At(end, Stop[c])
          IN  /\ end > pos
              /\ args' = [args EXCEPT ![c] = SubSeq(text, pos + 1, end)]
              /\ pos' = IF c = 3 THEN Skipped(end) ELSE IF goes THEN end + 1 ELSE end
              /\ converted' = c
              /\ mainPc' = IF goes THEN "scan" ELSE "act"
              /\ obeyed' = obeyed \cup
                    {n \in DOMAIN lines : c = 3 /\ start = Start(n) /\ args' = lines[n]}
    /\ UNCHANGED <<fileVars, start, storeVars>>

\* The answer of fscanf is not looked at (mutant).
ConvertFailsUnnoticed ==
    /\ mainPc = "scan" /\ "query" \in opened
    /\ Taken(converted + 1) = pos
    /\ mainPc' = "act"
    /\ UNCHANGED <<fileVars, scanVars, storeVars>>

\* Nothing to take; at the end of the file that is EOF before the first conversion only.
ConvertFails ==
    /\ mainPc = "scan" /\ "query" \in opened
    /\ Taken(converted + 1) = pos
    /\ mainPc' = IF pos = Len(text) /\ converted = 0 THEN "close" ELSE "act"
    /\ UNCHANGED <<fileVars, scanVars, storeVars>>

Turn ==
    /\ mainPc' = "scan" /\ converted' = 0 /\ start' = pos
    /\ UNCHANGED <<fileVars, pos, args, obeyed>>

\* put stores the pair, or fails.
Set ==
    /\ mainPc = "act" /\ args[1] = <<"set">> /\ Turn
    /\ \/ /\ store' = [k \in DOMAIN store \cup {args[2]} |->
                          IF k = args[2] THEN args[3] ELSE store[k]]
          /\ UNCHANGED lost
       \/ lost' = TRUE /\ UNCHANGED store
    /\ UNCHANGED answers

Answer(map, k) == IF k \in DOMAIN map THEN map[k] ELSE <<"-1">>

Get ==
    /\ mainPc = "act" /\ args[1] = <<"get">> /\ "answer" \in opened /\ Turn
    /\ answers' = IF Len(answers) < MaxAnswers THEN Append(answers, Answer(store, args[2]))
                                               ELSE answers
    /\ UNCHANGED <<store, lost>>

OtherCommand ==
    /\ mainPc = "act" /\ args[1] \notin {<<"set">>, <<"get">>} /\ Turn
    /\ UNCHANGED storeVars

Close ==
    /\ mainPc = "close" /\ "answer" \in opened
    /\ mainPc' = "done"
    /\ UNCHANGED <<fileVars, scanVars, storeVars>>

MainEnded == mainPc \in {"failed", "died", "done"}

Main == Open \/ Dies \/ Convert \/ ConvertFails \/ Set \/ Get \/ OtherCommand \/ Close

MainNext == Main \/ (MainEnded /\ UNCHANGED mainVars)

\* The process runs on.
MainSpec == MainInit /\ [][MainNext]_mainVars /\ WF_mainVars(Main)

--------------------------------------------------------------------------------
(* Properties *)

\* A line main.c is made for.
Proper(line) ==
    /\ Len(line) = 3
    /\ \A n \in 1..3 : Len(line[n]) \in 1..<<CommandWidth, KeyWidth, ValueWidth>>[n]

\* The map and the answers after each number of the lines ls, if every line is carried out.
Meant(ls) ==
    LET after[n \in 0..Len(ls)] ==
          IF n = 0 THEN [map |-> [k \in {} |-> <<>>], answers |-> <<>>]
          ELSE LET before == after[n - 1]
                   line   == ls[n]
               IN  [map |-> IF line[1] = <<"set">>
                              THEN [k \in DOMAIN before.map \cup {line[2]} |->
                                       IF k = line[2] THEN line[3] ELSE before.map[k]]
                              ELSE before.map,
                    answers |-> IF line[1] = <<"get">>
                                  THEN Append(before.answers, Answer(before.map, line[2]))
                                  ELSE before.answers]
    IN  after

\* From a file of proper lines main writes one answer for each get, in order, the value of
\* the last set before it, unless a put has failed.
AnswersRight ==
    (\A n \in DOMAIN lines : Proper(lines[n])) /\ ~lost =>
        /\ IsPrefix(answers, Meant(lines)[Len(lines)].answers)
        /\ mainPc = "done" => answers = Meant(lines)[Len(lines)].answers

\* A line that fits into the value.
Short(line) == Len(Render(line)) <= ValueWidth

\* A proper line at the start, or behind a short proper one.
Promised(n) ==
    /\ Proper(lines[n])
    /\ n > 1 => Proper(lines[n - 1]) /\ Short(lines[n - 1])

\* A line that main.c is not made for costs at most the line after it: if main ends, every
\* proper line at the start, or behind a short proper one, has been read as it is, whatever
\* stands before.
OnlyNextLineLost == mainPc = "done" => \A n \in DOMAIN lines : Promised(n) => n \in obeyed

\* main comes to its end, from a file of proper lines always; from any other, unless it
\* stands before a comma, for ever doing the same with the same arguments.
EndsOrStuck ==
    \/ <>MainEnded
    \/ /\ \E n \in DOMAIN lines : ~Proper(lines[n])
       /\ <>[](start = pos /\ At(pos, Comma) /\ converted = 0)
       /\ <>[][UNCHANGED args]_mainVars

--------------------------------------------------------------------------------
(* The inductive invariants the proofs use *)

\* Where line n begins, the line behind the last one being the end of the file.
Begin(n) == IF n <= Len(lines) THEN Start(n) ELSE Len(text)

\* Where the field f of the proper line n begins.
FieldStart(n, f) ==
    Start(n) + <<0, Len(lines[n][1]) + 1, Len(lines[n][1]) + Len(lines[n][2]) + 2>>[f]

\* fscanf has begun with line n, got the fields before f and stands at f.
Reading(n) ==
    \E f \in 1..3 :
        /\ start = Start(n) /\ converted = f - 1 /\ pos = FieldStart(n, f)
        /\ \A g \in 1..(f - 1) : args[g] = lines[n][g]

\* The stream stands in a line, and what the last call leaves are three fields.
DriverTypeOK ==
    /\ mainPc \in {"open", "scan", "act", "close", "died", "failed", "done"}
    /\ pos \in 0..Len(text) /\ converted \in 0..3
    /\ mainPc \in {"open", "scan"} => converted < 3
    /\ mainPc \in {"close", "done"} => pos = Len(text)
    /\ DOMAIN args = 1..3

\* n lines have been read, of a file of proper ones, and each has been carried out.
CarriedOut(n) ==
    /\ mainPc \in {"open", "failed", "scan"} =>
         \/ n < Len(lines) /\ Reading(n + 1)
         \/ n = Len(lines) /\ pos = Len(text) /\ converted = 0
    /\ mainPc = "act" => n < Len(lines) /\ args = lines[n + 1] /\ pos = Begin(n + 2)
    /\ mainPc \in {"close", "done"} => n = Len(lines)
    /\ ~lost => store = Meant(lines)[n].map /\ answers = Meant(lines)[n].answers

AnswersInv ==
    (\A n \in DOMAIN lines : Proper(lines[n])) => \E n \in 0..Len(lines) : CarriedOut(n)

\* Inside line n the stream stands before its first comma, unless fscanf has come there by
\* a field, or at its end at the end of the file.
Inside(n) ==
    pos \in Start(n)..(Start(n) + Len(Render(lines[n]))) =>
        \/ pos <= Start(n) + Len(lines[n][1])
        \/ mainPc \in {"scan", "died"} /\ converted \in {1, 2} /\ pos = FieldStart(n, 2)
        \/ mainPc \in {"scan", "died"} /\ converted = 2 /\ pos = FieldStart(n, 3)
        \/ pos = Len(text)

InsideInv == \A n \in DOMAIN lines : Proper(lines[n]) /\ Short(lines[n]) => Inside(n)

\* Line n is ahead, being read or has been read.
Kept(n) ==
    \/ pos < Start(n)
    \/ mainPc \in {"act", "died"} /\ pos = Start(n)
    \/ mainPc \in {"open", "failed", "scan", "died"} /\ Reading(n)
    \/ n \in obeyed

PromisedInv == \A n \in DOMAIN lines : Promised(n) => Kept(n)

================================================================================
