----------------------------- MODULE FileStore ------------------------------
(***************************************************************************)
(* What the RAM disk promises to the shell: a small set of named files,    *)
(* each holding the data of its last write.  Data are sequences of chunks, *)
(* one chunk for each FS_BLOCK_SIZE bytes or the rest of them.             *)
(***************************************************************************)
EXTENDS Integers, Sequences, SequencesExt, FiniteSets

CONSTANTS
  Names,       \* the names users give to files
  Data,        \* the data users write
  MAX_FILES,   \* room in the directory
  MAX_CHUNKS   \* room in a file

VARIABLES
  files,       \* what each existing file holds
  answer       \* what the last call returned: a code, and the data or names it read

svars == <<files, answer>>

Code(c) == [code |-> c, data |-> <<>>]

Init == files = <<>> /\ answer = Code(0)

Formatted == files' = <<>> /\ answer' = Code(0)

Created(n) ==
  \/ n \in DOMAIN files /\ answer' = Code(-1) /\ UNCHANGED files
  \/ /\ n \notin DOMAIN files
     /\ Cardinality(DOMAIN files) < MAX_FILES
     /\ answer' = Code(0)
     /\ files' = [m \in DOMAIN files \cup {n} |-> IF m = n THEN <<>> ELSE files[m]]
  \/ /\ n \notin DOMAIN files
     /\ Cardinality(DOMAIN files) = MAX_FILES
     /\ answer' = Code(-3) /\ UNCHANGED files

\* A write that does not fit is refused, and the old data are gone.
Written(n, d) ==
  \/ n \notin DOMAIN files /\ answer' = Code(-1) /\ UNCHANGED files
  \/ /\ n \in DOMAIN files
     /\ Len(d) > MAX_CHUNKS
     /\ answer' = Code(-2) /\ files' = [files EXCEPT ![n] = <<>>]
  \/ /\ n \in DOMAIN files
     /\ Len(d) <= MAX_CHUNKS
     /\ answer' = Code(Len(d)) /\ files' = [files EXCEPT ![n] = d]

\* As much of the data as the caller has room for.
Seen(d, room) == SubSeq(d, 1, IF Len(d) < room THEN Len(d) ELSE room)

ReadBack(n, room) ==
  /\ UNCHANGED files
  /\ \/ n \notin DOMAIN files /\ answer' = Code(-1)
     \/ /\ n \in DOMAIN files
        /\ answer' = [code |-> Len(Seen(files[n], room)), data |-> Seen(files[n], room)]

\* Every file once, in any order.
Listed ==
  /\ UNCHANGED files
  /\ \E s \in [1 .. Cardinality(DOMAIN files) -> DOMAIN files] :
       Range(s) = DOMAIN files /\ answer' = [code |-> 0, data |-> s]

Removed(n) ==
  \/ n \notin DOMAIN files /\ answer' = Code(-1) /\ UNCHANGED files
  \/ /\ n \in DOMAIN files /\ answer' = Code(0)
     /\ files' = [m \in DOMAIN files \ {n} |-> files[m]]

Next ==
  \/ Formatted \/ Listed
  \/ \E n \in Names : Created(n) \/ Removed(n)
  \/ \E n \in Names, d \in Data : Written(n, d)
  \/ \E n \in Names, room \in 1 .. MAX_CHUNKS : ReadBack(n, room)

Spec == Init /\ [][Next]_svars
=============================================================================
