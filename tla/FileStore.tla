------------------------------ MODULE FileStore ------------------------------
(***************************************************************************)
(* What a user of the filesystem may rely on at every instant, a power cut *)
(* included: a set of named files, which changes one file at a time and    *)
(* only in the ways below, except that formatting removes them all.  A     *)
(* unit of content is <<tag, position>>: the tag tells the data of         *)
(* different files apart, the position its place.                          *)
(***************************************************************************)
EXTENDS Naturals, Sequences

CONSTANTS Names, Tags, MAX_SIZE, NULL

VARIABLES
    files,         \* the content of each file, NULL where there is none
    formatting     \* the disk is being formatted

Empty == [n \in Names |-> NULL]

Init == files = Empty /\ formatting = FALSE

Create(n) == /\ files[n] = NULL
             /\ files' = [files EXCEPT ![n] = << >>]

Remove(n) == /\ files[n] # NULL
             /\ files' = [files EXCEPT ![n] = NULL]

Rename(n, m) == /\ files[n] # NULL
                /\ files[m] = NULL
                /\ files' = [files EXCEPT ![n] = NULL, ![m] = files[n]]

\* Append data of one tag, at the right place.
Grow(n, t, k) ==
    /\ files[n] # NULL
    /\ \A i \in DOMAIN files[n] : files[n][i][1] = t
    /\ LET size == Len(files[n])
       IN  files' = [files EXCEPT ![n] = @ \o [i \in 1..k |-> <<t, size + i - 1>>]]

Shrink(n, k) == /\ files[n] # NULL
                /\ k < Len(files[n])
                /\ files' = [files EXCEPT ![n] = SubSeq(@, 1, k)]

\* A change of one file (stuttering steps are all others).
Change == /\ ~formatting /\ UNCHANGED formatting
          /\ files' # files
          /\ \E n \in Names :
                \/ Create(n)
                \/ Remove(n)
                \/ \E m \in Names \ {n} : Rename(n, m)
                \/ \E t \in Tags, k \in 1..MAX_SIZE : Grow(n, t, k)
                \/ \E k \in 0..(MAX_SIZE - 1) : Shrink(n, k)

\* Formatting begins, with every file lost, or ends.
Format == formatting' = ~formatting /\ files' = Empty

Next == Change \/ Format

Spec == Init /\ [][Next]_<<files, formatting>>
=============================================================================
