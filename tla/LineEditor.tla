----------------------------- MODULE LineEditor -----------------------------
(***************************************************************************)
(* What the shell promises its user: a line of at most Length characters   *)
(* that is typed, corrected at its end and run by Enter.                   *)
(***************************************************************************)
EXTENDS Integers, Sequences, SequencesExt

CONSTANTS Letters, Space, Commands, Length

VARIABLES
  line,   \* typed since the prompt
  ran     \* what the last Enter ran

lvars == <<line, ran>>

Init == line = <<>> /\ ran = <<>>

Type(ch) ==
  /\ Len(line) < Length
  /\ line' = Append(line, ch)
  /\ UNCHANGED ran

Erase ==
  /\ line # <<>>
  /\ line' = Front(line)
  /\ UNCHANGED ran

\* The first word, and what follows the spaces behind it.
IsCommand(text, name, args) ==
  \E gap \in 0 .. Len(text) :
    /\ text = name \o [i \in 1 .. gap |-> Space] \o args
    /\ \A i \in DOMAIN name : name[i] # Space
    /\ args # <<>> => gap > 0 /\ args[1] # Space

Run ==
  /\ line # <<>>
  /\ line' = <<>>
  /\ \E name, args \in {SubSeq(line, i, j) : i \in 1 .. Len(line) + 1, j \in 0 .. Len(line)} :
       /\ IsCommand(line, name, args)
       /\ ran' = << name \in Commands, name, args >>

Next == Erase \/ Run \/ \E ch \in Letters \cup {Space} : Type(ch)

Spec == Init /\ [][Next]_lvars
=============================================================================
