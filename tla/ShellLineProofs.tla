--------------------------- MODULE ShellLineProofs ---------------------------
(***************************************************************************)
(* Proofs about the command line for every length of the buffer, every     *)
(* alphabet and every table of commands: the screen shows the line, and    *)
(* Enter runs the line and nothing else (LineEditor), whatever was in the  *)
(* buffer before.                                                          *)
(***************************************************************************)
EXTENDS ShellLine, FiniteSetTheorems, SequenceTheorems, WellFoundedInduction, TLAPS

\* No terminator inside the line, although the cells behind it may hold anything.
LineUnbroken == \A i \in 0 .. cmd_idx - 1 : cmd_buf[i] \in Printable

IInv == ShellTypeOK /\ ScreenIsLine /\ LineUnbroken

-----------------------------------------------------------------------------
(* Strings in the buffer                                                   *)

Buffers == [Cells -> Printable \cup {Nul}]

\* A non-empty set of naturals has a least element, and Min is it.
LEMMA MinIsLeast ==
  ASSUME NEW S, S \subseteq Nat, S # {}
  PROVE  Min(S) \in S /\ \A n \in S : Min(S) <= n
<1>1. \A m, n \in Nat : n < m => <<n, m>> \in OpToRel(<, Nat)
  BY DEF OpToRel
<1>2. PICK m \in S : \A n \in S : ~ (<<n, m>> \in OpToRel(<, Nat))
  <2> DEFINE R == OpToRel(<, Nat)
  <2>1. IsWellFoundedOn(R, Nat)
    BY NatLessThanWellFounded
  <2> HIDE DEF R
  <2>2. \E m \in S : \A n \in S : ~ (<<n, m>> \in R)
    BY <2>1, WFMin
  <2> QED
    BY <2>2 DEF R
<1>3. \A n \in S : ~ (n < m)
  BY <1>1, <1>2, Zenon
<1>4. \E x \in S : \A y \in S : x =< y
  BY <1>3
<1> QED
  BY <1>4 DEF Min

\* A string ends at the first terminator.
LEMMA StringUpTo ==
  ASSUME NEW buf \in Buffers, NEW k \in Cells, NEW m \in Cells, k <= m,
         buf[m] = Nul, \A i \in k .. m - 1 : buf[i] # Nul
  PROVE  String(buf, k) = [i \in 1 .. m - k |-> buf[k + i - 1]]
<1> DEFINE cells == {j \in Cells : j >= k /\ \A i \in k .. j : buf[i] # Nul}
<1>1. k \in Nat /\ m \in Nat /\ CMD_MAX_LEN \in Nat
  BY CmdMaxLenAssumption DEF Cells
<1>2. cells = k .. m - 1
  <2>1. ASSUME NEW j \in cells
        PROVE  j \in k .. m - 1
    BY <2>1, <1>1 DEF Cells
  <2>2. ASSUME NEW j \in k .. m - 1
        PROVE  j \in cells
    BY <2>2, <1>1 DEF Cells
  <2> QED
    BY <2>1, <2>2
<1>3. Cardinality(k .. m - 1) = IF k > m - 1 THEN 0 ELSE m - 1 - k + 1
  BY <1>1, FS_Interval
<1> HIDE DEF cells
<1>4. Cardinality(cells) = m - k
  <2>1. m - k = IF k > m - 1 THEN 0 ELSE m - 1 - k + 1
    BY <1>1
  <2> QED
    BY <1>2, <1>3, <2>1, Zenon
<1> QED
  BY <1>4 DEF String, cells

\* The terminator that Enter stores ends the line.
LEMMA TerminatedLine ==
  ASSUME IInv, NEW buf, buf = Terminated(cmd_buf, cmd_idx)
  PROVE  /\ buf \in Buffers
         /\ buf[cmd_idx] = Nul
         /\ \A i \in 0 .. cmd_idx - 1 : buf[i] = cmd_buf[i] /\ buf[i] \in Printable /\ buf[i] # Nul
<1>1. Nul \notin Printable
  BY CharactersAssumption DEF Printable
<1>2. cmd_idx \in Cells /\ CMD_MAX_LEN \in Nat /\ cmd_buf \in Buffers
  BY CmdMaxLenAssumption DEF IInv, ShellTypeOK, Buffers
<1>3. \A i \in 0 .. cmd_idx - 1 : i \in Cells /\ i # cmd_idx
  BY <1>2 DEF Cells
<1> QED
  BY <1>1, <1>2, <1>3 DEF IInv, LineUnbroken, Terminated, Buffers

\* The cut is at the first space of the line, or at its end.
LEMMA CutOfLine ==
  ASSUME IInv, NEW buf, buf = Terminated(cmd_buf, cmd_idx), NEW c, c = Cut(buf)
  PROVE  /\ c \in 0 .. cmd_idx
         /\ c < cmd_idx => cmd_buf[c] = Space /\ buf[c] = Space
         /\ c = cmd_idx => buf[c] = Nul
         /\ \A i \in 0 .. c - 1 : cmd_buf[i] # Space
<1> DEFINE ends == {j \in Cells : buf[j] \in {Space, Nul}}
<1>1. cmd_idx \in Nat /\ CMD_MAX_LEN \in Nat /\ cmd_idx < CMD_MAX_LEN /\ Cells \subseteq Nat
  BY CmdMaxLenAssumption DEF IInv, ShellTypeOK, Cells
<1>2. buf[cmd_idx] = Nul
      /\ \A i \in 0 .. cmd_idx - 1 : buf[i] = cmd_buf[i] /\ buf[i] # Nul
  BY TerminatedLine
<1>3. ends \subseteq Nat /\ cmd_idx \in ends
  BY <1>1, <1>2 DEF Cells
<1>4. c = Min(ends)
  BY DEF Cut
<1>5. c \in ends /\ \A n \in ends : c <= n
  <2> HIDE DEF ends
  <2> QED
    BY <1>3, <1>4, MinIsLeast
<1>6. c \in 0 .. cmd_idx
  BY <1>1, <1>3, <1>5
<1>7. ASSUME NEW i \in 0 .. c - 1
      PROVE  cmd_buf[i] # Space
  <2>1. i \notin ends /\ i \in Cells /\ i \in 0 .. cmd_idx - 1
    BY <1>1, <1>5, <1>6, <1>7 DEF Cells
  <2> QED
    BY <2>1, <1>2
<1>8. c < cmd_idx => cmd_buf[c] = Space /\ buf[c] = Space
  BY <1>1, <1>2, <1>5, <1>6
<1> QED
  BY <1>2, <1>6, <1>7, <1>8

\* What Enter takes as the name is the line up to the cut.
LEMMA NameOfLine ==
  ASSUME IInv, NEW buf, buf = Terminated(cmd_buf, cmd_idx), NEW c, c = Cut(buf)
  PROVE  /\ Terminated(buf, c) \in Buffers
         /\ String(Terminated(buf, c), 0) = [i \in 1 .. c |-> cmd_buf[i - 1]]
<1> DEFINE cut == Terminated(buf, c)
<1>1. cmd_idx \in Nat /\ CMD_MAX_LEN \in Nat /\ cmd_idx < CMD_MAX_LEN
  BY CmdMaxLenAssumption DEF IInv, ShellTypeOK, Cells
<1>2. buf \in Buffers
      /\ \A i \in 0 .. cmd_idx - 1 : buf[i] = cmd_buf[i] /\ buf[i] # Nul
  BY TerminatedLine
<1>3. c \in 0 .. cmd_idx
  BY CutOfLine
<1>4. c \in Cells /\ 0 \in Cells /\ 0 <= c
  BY <1>1, <1>3 DEF Cells
<1>5. cut \in Buffers /\ cut[c] = Nul
  BY <1>2, <1>4 DEF Terminated, Buffers
<1>6. \A i \in 0 .. c - 1 : cut[i] = cmd_buf[i] /\ cut[i] # Nul
  <2>1. \A i \in 0 .. c - 1 : i \in Cells /\ i # c /\ i \in 0 .. cmd_idx - 1
    BY <1>1, <1>3 DEF Cells
  <2> QED
    BY <1>2, <2>1 DEF Terminated, Buffers
<1> HIDE DEF cut
<1>7. String(cut, 0) = [i \in 1 .. c - 0 |-> cut[0 + i - 1]]
  BY <1>4, <1>5, <1>6, StringUpTo
<1>8. c - 0 = c /\ \A i \in 1 .. c : cut[0 + i - 1] = cmd_buf[i - 1]
  <2>1. \A i \in 1 .. c : 0 + i - 1 = i - 1 /\ i - 1 \in 0 .. c - 1
    BY <1>3, <1>1
  <2> QED
    BY <1>3, <1>1, <1>6, <2>1
<1>9. String(cut, 0) = [i \in 1 .. c |-> cmd_buf[i - 1]]
  BY <1>7, <1>8
<1> QED
  BY <1>5, <1>9 DEF cut

\* What Enter takes as the arguments is the line behind the spaces at the cut.
LEMMA ArgsOfLine ==
  ASSUME IInv, NEW buf, buf = Terminated(cmd_buf, cmd_idx), NEW c, c = Cut(buf)
  PROVE  \E d \in c .. cmd_idx :
           /\ Args(buf) = [i \in 1 .. cmd_idx - d |-> cmd_buf[d + i - 1]]
           /\ \A i \in c .. d - 1 : cmd_buf[i] = Space
           /\ d < cmd_idx => d > c /\ cmd_buf[d] # Space
<1>1. cmd_idx \in Nat /\ CMD_MAX_LEN \in Nat /\ cmd_idx < CMD_MAX_LEN /\ Cells \subseteq Nat
      /\ cmd_idx \in Cells
  BY CmdMaxLenAssumption DEF IInv, ShellTypeOK, Cells
<1>2. buf \in Buffers /\ buf[cmd_idx] = Nul /\ Nul # Space
      /\ \A i \in 0 .. cmd_idx - 1 : buf[i] = cmd_buf[i] /\ buf[i] # Nul
  BY TerminatedLine, CharactersAssumption
<1>3. /\ c \in 0 .. cmd_idx
      /\ c < cmd_idx => cmd_buf[c] = Space /\ buf[c] = Space
      /\ c = cmd_idx => buf[c] = Nul
  BY CutOfLine
<1>4. CASE c = cmd_idx
  <2>1. Args(buf) = <<>>
    BY <1>2, <1>3, <1>4 DEF Args
  <2>2. cmd_idx \in c .. cmd_idx /\ ~ (cmd_idx < cmd_idx)
        /\ \A i \in c .. cmd_idx - 1 : cmd_buf[i] = Space
    BY <1>1, <1>4
  <2>3. [i \in 1 .. cmd_idx - cmd_idx |-> cmd_buf[cmd_idx + i - 1]] = <<>>
    BY <1>1
  <2> QED
    BY <2>1, <2>2, <2>3
<1>5. CASE c < cmd_idx
  <2> DEFINE rest == {j \in Cells : j > c /\ buf[j] # Space}
             d == Min(rest)
  <2>1. rest \subseteq Nat /\ cmd_idx \in rest
    BY <1>1, <1>2, <1>5
  <2>2. d \in rest /\ \A n \in rest : d <= n
    <3> HIDE DEF rest
    <3> QED
      BY <2>1, MinIsLeast
  <2>3. Args(buf) = String(buf, d)
    BY <1>3, <1>5 DEF Args
  <2>4. d \in Cells /\ d > c /\ buf[d] # Space /\ d \in c .. cmd_idx /\ d <= cmd_idx
    <3> HIDE DEF d
    <3> QED
      BY <1>1, <1>3, <2>1, <2>2
  <2>5. ASSUME NEW i \in c .. d - 1
        PROVE  cmd_buf[i] = Space
    <3> HIDE DEF d
    <3>1. i \in Cells /\ i \in 0 .. cmd_idx - 1 /\ ~ (d <= i)
      BY <1>1, <1>3, <2>4, <2>5 DEF Cells
    <3>2. i \notin rest
      BY <2>2, <3>1
    <3>3. CASE i = c
      BY <1>3, <1>5, <3>3
    <3>4. CASE i > c
      BY <1>2, <3>1, <3>2, <3>4
    <3> QED
      BY <1>1, <1>3, <2>5, <3>3, <3>4
  <2> HIDE DEF d, rest
  <2>6. d < cmd_idx => cmd_buf[d] # Space
    BY <1>1, <1>2, <1>3, <2>4
  <2>7. \A i \in d .. cmd_idx - 1 : i \in 0 .. cmd_idx - 1 /\ buf[i] # Nul
    BY <1>1, <1>2, <1>3, <2>4
  <2>8. String(buf, d) = [i \in 1 .. cmd_idx - d |-> buf[d + i - 1]]
    BY <1>1, <1>2, <2>4, <2>7, StringUpTo
  <2>9. \A i \in 1 .. cmd_idx - d : buf[d + i - 1] = cmd_buf[d + i - 1]
    <3>1. \A i \in 1 .. cmd_idx - d : d + i - 1 \in 0 .. cmd_idx - 1
      BY <1>1, <1>3, <2>4
    <3> QED
      BY <1>2, <3>1
  <2>10. Args(buf) = [i \in 1 .. cmd_idx - d |-> cmd_buf[d + i - 1]]
    BY <2>3, <2>8, <2>9
  <2> QED
    BY <2>4, <2>5, <2>6, <2>10
<1> QED
  BY <1>1, <1>3, <1>4, <1>5

-----------------------------------------------------------------------------
(* The invariant                                                           *)

LEMMA TypedIsString ==
  cmd_idx \in Nat /\ LineUnbroken => Typed \in Seq(Printable) /\ Len(Typed) = cmd_idx
<1> SUFFICES ASSUME cmd_idx \in Nat, LineUnbroken
             PROVE  Typed \in Seq(Printable) /\ Len(Typed) = cmd_idx
  OBVIOUS
<1>1. \A i \in 1 .. cmd_idx : i - 1 \in 0 .. cmd_idx - 1
  OBVIOUS
<1>2. \A i \in 1 .. cmd_idx : cmd_buf[i - 1] \in Printable
  BY <1>1 DEF LineUnbroken
<1> QED
  BY <1>2 DEF Typed

LEMMA TypedIsStringNext ==
  (cmd_idx \in Nat /\ LineUnbroken => Typed \in Seq(Printable) /\ Len(Typed) = cmd_idx)'
  BY TypedIsString, PTL

LEMMA InitSound == Init => IInv
<1> SUFFICES ASSUME Init
             PROVE  IInv
  OBVIOUS
<1>1. 0 \in Cells
  BY CmdMaxLenAssumption DEF Cells
<1> QED
  BY <1>1 DEF Init, IInv, ShellTypeOK, ScreenIsLine, Typed, LineUnbroken

\* A character goes behind the line, on the screen and in the buffer.
LEMMA CharacterStep ==
  ASSUME IInv, NEW ch \in Printable, Character(ch)
  PROVE  IInv' /\ Typed' = Append(Typed, ch)
<1>1. cmd_idx \in Nat /\ CMD_MAX_LEN \in Nat /\ cmd_idx \in Cells /\ cmd_idx + 1 \in Cells
      /\ cmd_idx' = cmd_idx + 1
  BY CmdMaxLenAssumption DEF IInv, ShellTypeOK, Cells, Character, HasRoom
<1>2. cmd_buf' \in Buffers /\ cmd_buf'[cmd_idx] = ch
      /\ \A i \in 0 .. cmd_idx - 1 : cmd_buf'[i] = cmd_buf[i]
  <2>1. \A i \in 0 .. cmd_idx - 1 : i \in Cells /\ i # cmd_idx
    BY <1>1 DEF Cells
  <2> QED
    BY <1>1, <2>1 DEF IInv, ShellTypeOK, Character, Buffers
<1>3. LineUnbroken'
  <2>1. \A i \in 0 .. cmd_idx' - 1 : i = cmd_idx \/ i \in 0 .. cmd_idx - 1
    BY <1>1
  <2> QED
    BY <1>2, <2>1 DEF IInv, LineUnbroken
<1>4. Typed \in Seq(Printable) /\ Len(Typed) = cmd_idx
  BY <1>1, TypedIsString DEF IInv
<1>5. Typed' = Append(Typed, ch)
  <2>1. Typed' \in Seq(Printable) /\ Len(Typed') = cmd_idx + 1
    <3>1. cmd_idx' \in Nat
      BY <1>1
    <3> QED
      BY <1>1, <1>3, <3>1, TypedIsStringNext
  <2>2. /\ Append(Typed, ch) \in Seq(Printable) /\ Len(Append(Typed, ch)) = cmd_idx + 1
        /\ \A i \in 1 .. cmd_idx : Append(Typed, ch)[i] = Typed[i]
        /\ Append(Typed, ch)[cmd_idx + 1] = ch
    <3> DEFINE old == Typed
    <3> HIDE DEF old
    <3>1. old \in Seq(Printable) /\ Len(old) = cmd_idx
      BY <1>4 DEF old
    <3> QED
      BY <3>1, AppendProperties DEF old
  <2>3. ASSUME NEW i \in 1 .. cmd_idx + 1
        PROVE  Typed'[i] = Append(Typed, ch)[i]
    <3>1. Typed'[i] = cmd_buf'[i - 1]
      BY <1>1, <2>3 DEF Typed
    <3>2. CASE i \in 1 .. cmd_idx
      <4>1. i - 1 \in 0 .. cmd_idx - 1 /\ Typed[i] = cmd_buf[i - 1]
        BY <1>1, <3>2 DEF Typed
      <4> QED
        BY <1>2, <2>2, <3>1, <3>2, <4>1
    <3>3. CASE i = cmd_idx + 1
      <4>1. i - 1 = cmd_idx
        BY <1>1, <3>3
      <4> QED
        BY <1>2, <2>2, <3>1, <3>3, <4>1
    <3>4. i \in 1 .. cmd_idx \/ i = cmd_idx + 1
      BY <1>1, <2>3
    <3> QED
      BY <3>2, <3>3, <3>4
  <2> DEFINE new == Typed'
             long == Append(Typed, ch)
  <2> HIDE DEF new, long
  <2>4. new \in Seq(Printable) /\ long \in Seq(Printable) /\ Len(new) = Len(long)
        /\ \A i \in 1 .. Len(new) : new[i] = long[i]
    BY <2>1, <2>2, <2>3 DEF new, long
  <2>5. new = long
    BY <2>4, SeqEqual
  <2> QED
    BY <2>5 DEF new, long
<1>6. ScreenIsLine' /\ screen' \in Seq(Printable)
  BY <1>4, <1>5 DEF IInv, ScreenIsLine, Character
<1> QED
  BY <1>1, <1>2, <1>3, <1>5, <1>6 DEF IInv, ShellTypeOK, Buffers

\* The last character of the line goes; the cell keeps it.
LEMMA BackspaceStep ==
  ASSUME IInv, Backspace
  PROVE  IInv' /\ Typed # <<>> /\ Typed' = Front(Typed)
<1>1. cmd_idx \in Nat \ {0} /\ CMD_MAX_LEN \in Nat /\ cmd_idx' = cmd_idx - 1
      /\ cmd_idx' \in Cells /\ cmd_buf' = cmd_buf
  BY CmdMaxLenAssumption DEF IInv, ShellTypeOK, Cells, Backspace
<1>2. Typed \in Seq(Printable) /\ Len(Typed) = cmd_idx
  BY <1>1, TypedIsString DEF IInv
<1>3. LineUnbroken'
  <2>1. \A i \in 0 .. cmd_idx' - 1 : i \in 0 .. cmd_idx - 1
    BY <1>1
  <2> QED
    BY <1>1, <2>1 DEF IInv, LineUnbroken
<1>4. Typed' = Front(Typed)
  <2>1. Front(Typed) = [i \in 1 .. cmd_idx - 1 |-> Typed[i]]
    <3> DEFINE old == Typed
    <3> HIDE DEF old
    <3>1. old \in Seq(Printable) /\ Len(old) = cmd_idx
      BY <1>2 DEF old
    <3>2. SubSeq(old, 1, cmd_idx - 1) = [i \in 1 .. cmd_idx - 1 |-> old[i]]
      BY <1>1, <3>1
    <3> QED
      BY <3>1, <3>2 DEF Front, old
  <2>2. \A i \in 1 .. cmd_idx - 1 : Typed[i] = cmd_buf[i - 1]
    <3>1. \A i \in 1 .. cmd_idx - 1 : i \in 1 .. cmd_idx
      BY <1>1
    <3> QED
      BY <3>1 DEF Typed
  <2>3. Typed' = [i \in 1 .. cmd_idx - 1 |-> cmd_buf[i - 1]]
    BY <1>1 DEF Typed
  <2> QED
    BY <2>1, <2>2, <2>3
<1>5. screen' = Typed'
  BY <1>4 DEF IInv, ScreenIsLine, Backspace
<1>6. Typed' \in Seq(Printable)
  <2>1. cmd_idx' \in Nat
    BY <1>1
  <2> QED
    BY <2>1, <1>3, TypedIsStringNext
<1>7. Typed # <<>>
  BY <1>1, <1>2
<1> QED
  BY <1>1, <1>3, <1>4, <1>5, <1>6, <1>7 DEF IInv, ShellTypeOK, ScreenIsLine

\* Ctrl+L prints the line that is already on the screen.
LEMMA RedrawStep ==
  ASSUME IInv, Redraw
  PROVE  IInv' /\ Typed' = Typed
<1>1. cmd_idx \in Nat /\ CMD_MAX_LEN \in Nat /\ cmd_idx \in Cells /\ 0 \in Cells
      /\ cmd_idx' = cmd_idx
  BY CmdMaxLenAssumption DEF IInv, ShellTypeOK, Cells, Redraw
<1>2. CASE cmd_idx = 0
  <2>1. cmd_buf' = cmd_buf /\ screen' = <<>>
    BY <1>2 DEF Redraw
  <2>2. Typed' = Typed /\ Typed = <<>>
    BY <1>1, <1>2, <2>1 DEF Typed
  <2> QED
    BY <1>1, <2>1, <2>2 DEF IInv, ShellTypeOK, ScreenIsLine, LineUnbroken
<1>3. CASE cmd_idx > 0
  <2>1. cmd_buf' = Terminated(cmd_buf, cmd_idx) /\ screen' = String(cmd_buf', 0)
    BY <1>3 DEF Redraw
  <2>2. /\ cmd_buf' \in Buffers /\ cmd_buf'[cmd_idx] = Nul
        /\ \A i \in 0 .. cmd_idx - 1 :
             cmd_buf'[i] = cmd_buf[i] /\ cmd_buf'[i] \in Printable /\ cmd_buf'[i] # Nul
    BY <2>1, TerminatedLine
  <2>3. screen' = [i \in 1 .. cmd_idx - 0 |-> cmd_buf'[0 + i - 1]]
    BY <1>1, <2>1, <2>2, StringUpTo
  <2>4. \A i \in 1 .. cmd_idx : i - 1 \in 0 .. cmd_idx - 1 /\ 0 + i - 1 = i - 1
    BY <1>1
  <2>5. Typed' = Typed
    BY <1>1, <2>2, <2>4 DEF Typed
  <2>6. screen' = Typed'
    BY <1>1, <2>3, <2>4 DEF Typed
  <2>7. screen' \in Seq(Printable)
    BY <1>1, <2>5, <2>6, TypedIsString DEF IInv
  <2> QED
    BY <1>1, <2>2, <2>6, <2>7 DEF IInv, ShellTypeOK, ScreenIsLine, LineUnbroken, Buffers
<1> QED
  BY <1>1, <1>2, <1>3

\* After Enter the line is empty, whatever stays in the buffer.
LEMMA EnterStep ==
  ASSUME IInv, Enter
  PROVE  IInv' /\ Typed' = <<>>
<1> DEFINE buf == Terminated(cmd_buf, cmd_idx)
<1>1. buf \in Buffers /\ Terminated(buf, Cut(buf)) \in Buffers
  BY TerminatedLine, NameOfLine
<1>2. cmd_buf' \in Buffers /\ cmd_idx' = 0 /\ screen' = <<>>
  BY <1>1 DEF Enter
<1>3. 0 \in Cells
  BY CmdMaxLenAssumption DEF Cells
<1>4. Typed' = <<>>
  BY <1>2 DEF Typed
<1> QED
  BY <1>2, <1>3, <1>4 DEF IInv, ShellTypeOK, ScreenIsLine, LineUnbroken, Buffers

LEMMA Inductive ==
  ASSUME IInv, [Next]_svars
  PROVE  IInv'
<1>1. CASE Backspace
  BY <1>1, BackspaceStep
<1>2. CASE Redraw
  BY <1>2, RedrawStep
<1>3. CASE Enter
  BY <1>3, EnterStep
<1>4. ASSUME NEW ch \in Printable, Character(ch)
      PROVE  IInv'
  BY <1>4, CharacterStep
<1>5. CASE UNCHANGED svars
  BY <1>5 DEF svars, IInv, ShellTypeOK, ScreenIsLine, Typed, LineUnbroken
<1> QED
  BY <1>1, <1>2, <1>3, <1>4, <1>5 DEF Next

LEMMA Invariant == Spec => []IInv
<1>1. IInv /\ [Next]_svars => IInv'
  BY Inductive
<1> QED
  BY <1>1, InitSound, PTL DEF Spec

\* The index never leaves the buffer, and there is always a cell left for the
\* terminator that Enter stores behind the line.
THEOREM ShellTypeCorrect == Spec => []ShellTypeOK
<1>1. IInv => ShellTypeOK
  BY DEF IInv
<1> QED
  BY <1>1, Invariant, PTL

\* What the echo of task_shell has left on the screen is the line in the buffer.
THEOREM ScreenShowsLine == Spec => []ScreenIsLine
<1>1. IInv => ScreenIsLine
  BY DEF IInv
<1> QED
  BY <1>1, Invariant, PTL

-----------------------------------------------------------------------------
(* The refinement of LineEditor                                            *)

\* A text is its part up to c, spaces up to d, and the rest.
LEMMA ThreeParts ==
  ASSUME NEW S, NEW text \in Seq(S), NEW c \in 0 .. Len(text), NEW d \in c .. Len(text),
         \A i \in c + 1 .. d : text[i] = Space
  PROVE  text = SubSeq(text, 1, c) \o [i \in 1 .. d - c |-> Space] \o SubSeq(text, d + 1, Len(text))
<1> DEFINE n == Len(text)
           name == SubSeq(text, 1, c)
           spaces == [i \in 1 .. d - c |-> Space]
           args == SubSeq(text, d + 1, n)
           T == S \cup {Space}
<1>1. n \in Nat /\ c \in Nat /\ d \in Nat /\ c <= d /\ d <= n /\ text \in Seq(T)
  OBVIOUS
<1>2. name \in Seq(T) /\ Len(name) = c /\ \A i \in 1 .. c : name[i] = text[i]
  <2> HIDE DEF T, n
  <2>1. SubSeq(text, 1, c) = [i \in 1 .. c |-> text[i]]
    BY <1>1 DEF n
  <2>2. \A i \in 1 .. c : text[i] \in T
    BY <1>1 DEF n
  <2> QED
    BY <1>1, <2>1, <2>2
<1>3. spaces \in Seq(T) /\ Len(spaces) = d - c /\ \A i \in 1 .. d - c : spaces[i] = Space
  BY <1>1
<1>4. args \in Seq(T) /\ Len(args) = n - d /\ \A i \in 1 .. n - d : args[i] = text[d + i]
  <2> HIDE DEF T
  <2>1. args = [i \in 1 .. n - d |-> text[d + i]]
    BY <1>1
  <2>2. \A i \in 1 .. n - d : d + i \in 1 .. n
    BY <1>1
  <2>3. \A i \in 1 .. n - d : text[d + i] \in T
    BY <1>1, <2>2
  <2> HIDE DEF args, n
  <2> QED
    BY <1>1, <2>1, <2>3
<1> DEFINE start == name \o spaces
<1> HIDE DEF name, spaces, args, T, n
<1>5. start \in Seq(T) /\ Len(start) = d
      /\ \A i \in 1 .. d : start[i] = IF i <= c THEN name[i] ELSE spaces[i - c]
  <2>1. Len(name) + Len(spaces) = d
    BY <1>1, <1>2, <1>3
  <2>2. /\ start \in Seq(T)
        /\ Len(start) = Len(name) + Len(spaces)
        /\ \A i \in 1 .. Len(name) + Len(spaces) :
              start[i] = IF i <= Len(name) THEN name[i] ELSE spaces[i - Len(name)]
    <3>1. name \in Seq(T) /\ spaces \in Seq(T)
      BY <1>2, <1>3
    <3> QED
      BY <3>1, ConcatProperties, Zenon
  <2> HIDE DEF start
  <2> QED
    BY <1>2, <2>1, <2>2
<1>6. \A i \in 1 .. d : start[i] = text[i]
  <2> TAKE i \in 1 .. d
  <2>1. CASE i <= c
    BY <1>1, <1>2, <1>5, <2>1
  <2>2. CASE i > c
    <3>1. i - c \in 1 .. d - c /\ i \in c + 1 .. d
      BY <1>1, <2>2
    <3> QED
      BY <1>1, <1>3, <1>5, <2>2, <3>1
  <2>3. i <= c \/ i > c
    BY <1>1
  <2> QED
    BY <2>1, <2>2, <2>3
<1> HIDE DEF start
<1>7. start \o args \in Seq(T) /\ Len(start \o args) = n
      /\ \A i \in 1 .. n : (start \o args)[i] = IF i <= d THEN start[i] ELSE args[i - d]
  <2>1. Len(start) + Len(args) = n
    BY <1>1, <1>4, <1>5
  <2>2. /\ start \o args \in Seq(T)
        /\ Len(start \o args) = Len(start) + Len(args)
        /\ \A i \in 1 .. Len(start) + Len(args) :
              (start \o args)[i] = IF i <= Len(start) THEN start[i] ELSE args[i - Len(start)]
    <3>1. start \in Seq(T) /\ args \in Seq(T)
      BY <1>4, <1>5
    <3> QED
      BY <3>1, ConcatProperties, Zenon
  <2> QED
    BY <1>5, <2>1, <2>2, Zenon
<1>8. \A i \in 1 .. n : (start \o args)[i] = text[i]
  <2> TAKE i \in 1 .. n
  <2>1. CASE i <= d
    BY <1>1, <1>6, <1>7, <2>1
  <2>2. CASE i > d
    <3>1. i - d \in 1 .. n - d /\ d + (i - d) = i
      BY <1>1, <2>2
    <3> QED
      BY <1>1, <1>4, <1>7, <2>2, <3>1
  <2>3. i <= d \/ i > d
    BY <1>1
  <2> QED
    BY <2>1, <2>2, <2>3
<1>9. start \o args = text
  BY <1>1, <1>7, <1>8, SeqEqual DEF n
<1> QED
  BY <1>9 DEF start, name, spaces, args, n

\* Enter on a line: what it runs is the first word of the line, and what follows
\* the spaces behind it.
LEMMA EnterRuns ==
  ASSUME IInv, Enter, cmd_idx > 0
  PROVE  Promise!Run
<1> DEFINE buf == Terminated(cmd_buf, cmd_idx)
           c == Cut(buf)
           n == cmd_idx
           line == Typed
           name == SubSeq(line, 1, c)
<1>1. n \in Nat \ {0} /\ CMD_MAX_LEN \in Nat
  BY CmdMaxLenAssumption DEF IInv, ShellTypeOK, Cells
<1>2. line \in Seq(Printable) /\ Len(line) = n
  BY <1>1, TypedIsString DEF IInv
<1>3. \A i \in 1 .. n : line[i] = cmd_buf[i - 1]
  BY DEF Typed
<1>4. c \in 0 .. n /\ \A i \in 0 .. c - 1 : cmd_buf[i] # Space
  BY CutOfLine
<1>5. String(Terminated(buf, c), 0) = [i \in 1 .. c |-> cmd_buf[i - 1]]
  BY NameOfLine
<1>6. PICK d \in c .. n :
        /\ Args(buf) = [i \in 1 .. n - d |-> cmd_buf[d + i - 1]]
        /\ \A i \in c .. d - 1 : cmd_buf[i] = Space
        /\ d < n => d > c /\ cmd_buf[d] # Space
  BY ArgsOfLine
<1>7. ran' = << Known(String(Terminated(buf, c), 0)), String(Terminated(buf, c), 0), Args(buf) >>
  BY DEF Enter
<1>8. Typed' = <<>>
  BY EnterStep
<1> DEFINE args == SubSeq(line, d + 1, n)
<1> HIDE DEF buf, c, line, n
<1>9. c \in Nat /\ d \in Nat /\ c <= d /\ d <= n /\ n \in Nat
  BY <1>1, <1>4, <1>6
<1>10. name = String(Terminated(buf, c), 0) /\ Len(name) = c
       /\ \A i \in 1 .. c : name[i] = cmd_buf[i - 1]
  <2>1. name = [i \in 1 .. c |-> line[i]]
    BY <1>2, <1>9
  <2>2. \A i \in 1 .. c : line[i] = cmd_buf[i - 1]
    BY <1>3, <1>9
  <2>3. name = [i \in 1 .. c |-> cmd_buf[i - 1]]
    BY <2>1, <2>2
  <2> HIDE DEF name
  <2> QED
    BY <1>5, <1>9, <2>3
<1>11. args = Args(buf) /\ Len(args) = n - d
       /\ \A i \in 1 .. n - d : args[i] = cmd_buf[d + i - 1]
  <2>1. args = [i \in 1 .. n - d |-> line[d + i]]
    BY <1>2, <1>9
  <2>2. \A i \in 1 .. n - d : line[d + i] = cmd_buf[d + i - 1]
    <3>1. \A i \in 1 .. n - d : d + i \in 1 .. n
      BY <1>9
    <3> QED
      BY <1>3, <3>1
  <2>3. args = [i \in 1 .. n - d |-> cmd_buf[d + i - 1]]
    BY <2>1, <2>2
  <2> HIDE DEF args
  <2> QED
    BY <1>6, <1>9, <2>3
<1>12. line = name \o [i \in 1 .. d - c |-> Space] \o args
  <2>1. \A i \in c + 1 .. d : line[i] = Space
    <3>1. \A i \in c + 1 .. d : i \in 1 .. n /\ i - 1 \in c .. d - 1
      BY <1>9
    <3> QED
      BY <1>3, <1>6, <3>1
  <2>2. c \in 0 .. Len(line) /\ d \in c .. Len(line)
    BY <1>2, <1>9
  <2> QED
    BY <1>2, <2>1, <2>2, ThreeParts
<1> HIDE DEF name, args
<1>13. Promise!IsCommand(line, name, args)
  <2>1. d - c \in 0 .. Len(line)
    BY <1>2, <1>9
  <2>2. \A i \in DOMAIN name : name[i] # Space
    <3>1. name \in Seq(Printable)
      BY <1>2, <1>9 DEF name
    <3>2. \A i \in 1 .. c : i - 1 \in 0 .. c - 1
      BY <1>9
    <3> QED
      BY <1>4, <1>9, <1>10, <3>1, <3>2
  <2>3. args # <<>> => d - c > 0 /\ args[1] # Space
    <3>1. CASE d = n
      <4>1. args = <<>>
        BY <1>6, <1>9, <1>11, <3>1
      <4> QED
        BY <4>1
    <3>2. CASE d < n
      <4>1. 1 \in 1 .. n - d /\ d + 1 - 1 = d
        BY <1>9, <3>2
      <4> QED
        BY <1>6, <1>9, <1>11, <3>2, <4>1
    <3> QED
      BY <1>9, <3>1, <3>2
  <2> QED
    BY <1>12, <2>1, <2>2, <2>3 DEF Promise!IsCommand
<1>14. name \in {SubSeq(line, i, j) : i \in 1 .. Len(line) + 1, j \in 0 .. Len(line)}
  <2>1. 1 \in 1 .. Len(line) + 1 /\ c \in 0 .. Len(line)
    BY <1>2, <1>9
  <2> QED
    BY <2>1 DEF name
<1>15. args \in {SubSeq(line, i, j) : i \in 1 .. Len(line) + 1, j \in 0 .. Len(line)}
  <2> DEFINE k == d + 1
  <2>1. k \in 1 .. Len(line) + 1 /\ n \in 0 .. Len(line)
    BY <1>2, <1>9
  <2>2. args = SubSeq(line, k, n)
    BY DEF args
  <2> HIDE DEF k
  <2> QED
    BY <2>1, <2>2
<1>16. ran' = << name \in Commands, name, args >>
  BY <1>7, <1>10, <1>11 DEF Known
<1>17. line # <<>>
  BY <1>1, <1>2 DEF n
<1> QED
  BY <1>8, <1>13, <1>14, <1>15, <1>16, <1>17 DEF Promise!Run, line

LEMMA ShellStep ==
  ASSUME IInv, [Next]_svars
  PROVE  [Promise!Next]_(Promise!lvars)
<1>1. CASE Backspace
  <2>1. Typed # <<>> /\ Typed' = Front(Typed) /\ ran' = ran
    BY <1>1, BackspaceStep DEF Backspace
  <2>2. Promise!Erase
    BY <2>1 DEF Promise!Erase, Promise!Front, Front
  <2> QED
    BY <2>2 DEF Promise!Next
<1>2. CASE Redraw
  <2>1. Typed' = Typed /\ ran' = ran
    BY <1>2, RedrawStep DEF Redraw
  <2> QED
    BY <2>1 DEF Promise!lvars
<1>3. CASE Enter
  <2>1. CASE cmd_idx > 0
    BY <1>3, <2>1, EnterRuns DEF Promise!Next
  <2>2. CASE ~ (cmd_idx > 0)
    <3>1. Typed = <<>>
      BY <2>2, CmdMaxLenAssumption DEF IInv, ShellTypeOK, Cells, Typed
    <3>2. Typed' = <<>> /\ ran' = ran
      BY <1>3, <2>2, EnterStep DEF Enter
    <3> QED
      BY <3>1, <3>2 DEF Promise!lvars
  <2> QED
    BY <2>1, <2>2
<1>4. ASSUME NEW ch \in Printable, Character(ch)
      PROVE  [Promise!Next]_(Promise!lvars)
  <2>1. Typed' = Append(Typed, ch) /\ ran' = ran
    BY <1>4, CharacterStep DEF Character
  <2>2. Len(Typed) < CMD_MAX_LEN - 1
    <3>1. cmd_idx \in Nat /\ cmd_idx < CMD_MAX_LEN - 1
      BY <1>4, CmdMaxLenAssumption DEF IInv, ShellTypeOK, Cells, Character, HasRoom
    <3> QED
      BY <3>1, TypedIsString DEF IInv
  <2>3. Promise!Type(ch)
    BY <2>1, <2>2 DEF Promise!Type
  <2> QED
    BY <2>3 DEF Promise!Next, Printable
<1>5. CASE UNCHANGED svars
  BY <1>5 DEF svars, Typed, Promise!lvars
<1> QED
  BY <1>1, <1>2, <1>3, <1>4, <1>5 DEF Next

\* For every buffer and whatever it held at the start, the loop of task_shell
\* implements LineEditor: each key types or erases one character of the line, and
\* Enter runs the line, cut at its first spaces, and nothing of the buffer's past.
THEOREM ShellRunsTheLine == Spec => RunsTheLine
<1>1. Init => Promise!Init
  BY DEF Init, Promise!Init, Typed
<1>2. IInv /\ [Next]_svars => [Promise!Next]_(Promise!lvars)
  BY ShellStep
<1> QED
  BY <1>1, <1>2, Invariant, PTL DEF Spec, RunsTheLine, Promise!Spec
=============================================================================
