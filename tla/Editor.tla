------------------------------- MODULE Editor -------------------------------
(***************************************************************************)
(* cmd_edit, the shell's text editor, on the RAM disk.  While it is open   *)
(* the shell runs no other command.  Its buffer (2048 bytes) holds more    *)
(* than a file may (DIRECT blocks).                                        *)
(***************************************************************************)
EXTENDS RamFS

VARIABLES
  editing,   \* the name of the file being edited, or NoName
  buffer,    \* edit_buffer, in chunks
  saved      \* the screen shows [SAVED] and nothing was typed since

evars == <<fvars, editing, buffer, saved>>

EditorInit == Init /\ editing = NoName /\ buffer = <<>> /\ saved = FALSE

\* The other commands of the shell.
Command == editing = NoName /\ Next /\ UNCHANGED <<editing, buffer, saved>>

\* Starts from what sys_fs_read returns, or from nothing when it fails.
Open(n) ==
  /\ editing = NoName
  /\ Read(n, MAX_LEN)
  /\ editing' = n
  /\ buffer' = answer'.data
  /\ saved' = FALSE

\* One more than fits in edit_buffer (mutant of HasRoom).
RoomForOneMore == Len(buffer) <= MAX_LEN

HasRoom == Len(buffer) < MAX_LEN

Type(c) ==
  /\ editing # NoName
  /\ HasRoom
  /\ buffer' = Append(buffer, c)
  /\ saved' = FALSE
  /\ UNCHANGED <<fvars, editing>>

Backspace ==
  /\ editing # NoName
  /\ buffer # <<>>
  /\ buffer' = Front(buffer)
  /\ saved' = FALSE
  /\ UNCHANGED <<fvars, editing>>

\* The buffer is saved without its last chunk (mutant of ToSave).
AllButLast == IF buffer = <<>> THEN buffer ELSE Front(buffer)

ToSave == buffer

\* Ctrl+W.  The result of sys_fs_write is not looked at.
Save ==
  /\ editing # NoName
  /\ Write(editing, ToSave)
  /\ saved' = TRUE
  /\ UNCHANGED <<editing, buffer>>

\* Ctrl+X
Quit ==
  /\ editing # NoName
  /\ editing' = NoName
  /\ buffer' = <<>>
  /\ saved' = FALSE
  /\ UNCHANGED fvars

EditorNext ==
  \/ Command
  \/ \E n \in Names : Open(n)
  \/ \E c \in Chunks : Type(c)
  \/ Backspace
  \/ Save
  \/ Quit

EditorSpec == EditorInit /\ [][EditorNext]_evars

-----------------------------------------------------------------------------
(* Properties                                                              *)

\* The types; the buffer never outgrows edit_buffer.
EditorTypeOK ==
  /\ TypeOK
  /\ editing \in Names \cup {NoName}
  /\ buffer \in Data
  /\ saved \in BOOLEAN

\* file_cmds.c writes [SAVED] under the file's name after Ctrl+W, whatever the
\* write returned.  As long as that stands on the screen one of three things has
\* happened, and the ignored result tells which: there is no such file, or it holds
\* exactly the buffer, whatever blocks the disk had to free and reuse for it, or the
\* buffer was too large and the file is empty, its old content gone.
SavedMeans ==
  saved =>
    \/ editing \notin DOMAIN Files /\ answer = Code(-1)
    \/ /\ editing \in DOMAIN Files /\ Len(buffer) <= DIRECT
       /\ Files[editing] = buffer /\ answer = Code(Len(buffer))
    \/ /\ editing \in DOMAIN Files /\ Len(buffer) > DIRECT
       /\ Files[editing] = <<>> /\ answer = Code(-2)
=============================================================================
