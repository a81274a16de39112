----------------------------- MODULE SnapshotImage -----------------------------
(****************************************************************************)
(* The text image ./kvs.img of kvs_lab_sample: how do_snapshot writes a     *)
(* record and how do_recovery cuts what it reads back into records.  A      *)
(* string is the sequence of its bytes, a store a function from strings.    *)
(* No key or value main.c reads holds a CR, so strcspn(..., "\r\n") cuts    *)
(* nothing that strtok has left.                                            *)
(****************************************************************************)
EXTENDS Integers, Sequences, FiniteSetsExt

Newline == 10
Comma   == 44

EmptyStore == [k \in {} |-> <<>>]

\* "%s,%s\n"
Line(k, v) == k \o <<Comma>> \o v \o <<Newline>>

\* strcmp(s, t) < 0
StrLess(s, t) ==
    \E n \in 0..Len(s) :
        /\ n < Len(t)
        /\ SubSeq(s, 1, n) = SubSeq(t, 1, n)
        /\ n = Len(s) \/ s[n + 1] < t[n + 1]

\* put, for every record of g in turn.
Overlay(f, g) == [k \in DOMAIN f \cup DOMAIN g |-> IF k \in DOMAIN g THEN g[k] ELSE f[k]]

--------------------------------------------------------------------------------
(* strtok(buffer, "\n") over buffers of the given size: a token starts after *)
(* a newline or at the start of a buffer, and ends before the next one.      *)

SameBuffer(size, m, n) == (m - 1) \div size = (n - 1) \div size

TokenStarts(img, size) ==
    {m \in DOMAIN img :
        /\ img[m] # Newline
        /\ m = 1 \/ img[m - 1] = Newline \/ ~SameBuffer(size, m - 1, m)}

TokenEnds(img, size) ==
    {n \in DOMAIN img : n = Len(img) \/ img[n + 1] = Newline \/ ~SameBuffer(size, n, n + 1)}

Token(img, size, m) == SubSeq(img, m, Min({n \in TokenEnds(img, size) : n >= m}))

\* Tokens without a comma are passed over.
HasComma(token) == \E c \in DOMAIN token : token[c] = Comma

FirstComma(token) == Min({c \in DOMAIN token : token[c] = Comma})
KeyOf(token)      == SubSeq(token, 1, FirstComma(token) - 1)
ValueOf(token)    == SubSeq(token, FirstComma(token) + 1, Len(token))

\* What the puts of do_recovery store: the last record of a key wins.
Recovered(img, size) ==
    LET records == {m \in TokenStarts(img, size) : HasComma(Token(img, size, m))}
        key(m)  == KeyOf(Token(img, size, m))
        last(k) == Max({m \in records : key(m) = k})
    IN  [k \in {key(m) : m \in records} |-> ValueOf(Token(img, size, last(k)))]
================================================================================
