------------------------------ MODULE ShellLine ------------------------------
(***************************************************************************)
(* The command line of task_shell(): the loop over the keys, the cut into  *)
(* command and arguments, and the search of the command table.  The keys   *)
(* come in any order; that they are the ones typed is RxBuffer.            *)
(*                                                                         *)
(* cmd_buf is never cleared.  It holds whatever was on the stack, then the *)
(* remains of earlier lines, and every use of it counts on a terminator.   *)
(***************************************************************************)
EXTENDS Integers, Sequences, SequencesExt

CONSTANTS
  CMD_MAX_LEN,
  Letters, Space,  \* printable characters
  Nul,
  Commands         \* the names in shell_commands

ASSUME CmdMaxLenAssumption == CMD_MAX_LEN \in Nat \ {0}
ASSUME CharactersAssumption ==
  Space \notin Letters /\ Nul \notin Letters \cup {Space} /\ Commands \subseteq Seq(Letters)

VARIABLES
  cmd_buf, cmd_idx,
  screen,   \* what is shown behind the last prompt
  ran       \* the last command: found?, its name, its arguments (NULL is <<>>)

svars == <<cmd_buf, cmd_idx, screen, ran>>

Printable == Letters \cup {Space}
Cells == 0 .. CMD_MAX_LEN - 1

\* The buffer is on the stack of the task and not initialised.
Init ==
  /\ cmd_buf \in [Cells -> Printable \cup {Nul}]
  /\ cmd_idx = 0
  /\ screen = <<>>
  /\ ran = <<>>

-----------------------------------------------------------------------------
(* Strings in the buffer                                                   *)

\* The C string that starts at cell k.
String(buf, k) ==
  LET cells == {j \in Cells : j >= k /\ \A i \in k .. j : buf[i] # Nul}
  IN  [i \in 1 .. Cardinality(cells) |-> buf[k + i - 1]]

\* The terminator forgotten (mutant of Terminated).
TerminatedNot(buf, k) == buf

Terminated(buf, k) == [buf EXCEPT ![k] = Nul]

\* Where the name ends.
Cut(buf) == Min({j \in Cells : buf[j] \in {Space, Nul}})

\* One space skipped (mutant of Args).
ArgsAfterOne(buf) == IF buf[Cut(buf)] = Space THEN String(buf, Cut(buf) + 1) ELSE <<>>

\* The loop that skips further spaces stops at the terminator of the line.
Args(buf) ==
  IF buf[Cut(buf)] = Space
  THEN String(buf, Min({j \in Cells : j > Cut(buf) /\ buf[j] # Space}))
  ELSE <<>>

-----------------------------------------------------------------------------
(* The keys                                                                *)

\* Room for the terminator not kept (mutant of HasRoom).
RoomForAll == cmd_idx < CMD_MAX_LEN

HasRoom == cmd_idx < CMD_MAX_LEN - 1

\* A printable character is echoed and stored; without room it is dropped.
Character(ch) ==
  /\ HasRoom
  /\ screen' = Append(screen, ch)
  /\ cmd_buf' = [cmd_buf EXCEPT ![cmd_idx] = ch]
  /\ cmd_idx' = cmd_idx + 1
  /\ UNCHANGED ran

Backspace ==
  /\ cmd_idx > 0
  /\ screen' = Front(screen)
  /\ cmd_idx' = cmd_idx - 1
  /\ UNCHANGED <<cmd_buf, ran>>

\* Ctrl+L: the screen is cleared, the line printed again.
Redraw ==
  /\ cmd_buf' = IF cmd_idx > 0 THEN Terminated(cmd_buf, cmd_idx) ELSE cmd_buf
  /\ screen' = IF cmd_idx > 0 THEN String(cmd_buf', 0) ELSE <<>>
  /\ UNCHANGED <<cmd_idx, ran>>

Known(name) == name \in Commands

\* Enter.  With a line the space behind the name is overwritten, and the command
\* is run or reported as unknown; the command itself is not part of this module.
Enter ==
  LET buf == Terminated(cmd_buf, cmd_idx)
      cut == Terminated(buf, Cut(buf))
  IN  /\ IF cmd_idx > 0
         THEN /\ cmd_buf' = cut
              /\ ran' = << Known(String(cut, 0)), String(cut, 0), Args(buf) >>
         ELSE cmd_buf' = buf /\ UNCHANGED ran
      /\ cmd_idx' = 0
      /\ screen' = <<>>

Next == Backspace \/ Redraw \/ Enter \/ \E ch \in Printable : Character(ch)

Spec == Init /\ [][Next]_svars

-----------------------------------------------------------------------------
(* Properties                                                              *)

\* The types; there is always a cell left for the terminator.
ShellTypeOK ==
  /\ cmd_buf \in [Cells -> Printable \cup {Nul}]
  /\ cmd_idx \in Cells
  /\ screen \in Seq(Printable)

Typed == [i \in 1 .. cmd_idx |-> cmd_buf[i - 1]]

Promise == INSTANCE LineEditor WITH Length <- CMD_MAX_LEN - 1, line <- Typed

\* The shell runs what was typed and not corrected since the prompt, cut at its
\* first spaces: no rest of an earlier line, of the stack or of an erased
\* character gets into a command or its arguments (LineEditor).
RunsTheLine == Promise!Spec

\* The user sees the line that Enter will run, also after Ctrl+L and when the
\* buffer is full.
ScreenIsLine == screen = Typed
=============================================================================
