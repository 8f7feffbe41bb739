----------------------------- MODULE EditorCore -----------------------------
(* What a key does, from the user's keyboard to the file: the buffers opened  *)
(* at the start (BufferTables), the walk through the input map (KeyInput), and *)
(* core/event/process_event.cpp between them.  A command is run with the      *)
(* byte buffer of the editor buffer the user interface shows, the first one   *)
(* of the list it was answered; page-up takes the number of that byte buffer  *)
(* for one of an editor buffer.  A command that a module defines may also     *)
(* open and close buffers.                                                    *)
EXTENDS BufferTables, KeyInput

VARIABLES reached,      \* the files the commands have worked on
          paged,        \* the files page-up has laid out
          early         \* whether a module opened a byte buffer before the files

vars == <<bufferVars, keyVars, reached, paged, early>>

Init == BInit /\ KeyInit /\ reached = {} /\ paged = {} /\ early = FALSE

\* The modules are loaded and the files opened before the core runs.
Starting ==
  /\ phase \in {"modules", "files"}
  /\ BNext
  /\ early' = (early \/ known' # {})
  /\ UNCHANGED <<keyVars, reached, paged>>

Shown == Head(listed)

\* Mutant: one number taken for both tables.
SameNumber == Shown

\* process_event: the byte buffer is looked up for every event.
ByteBuffer == editors.slot[Shown].bid

\* page_up_internal: of the editor buffer of that number, if there is one, the
\* byte buffer.
PageUpBuffers == {editors.slot[e].bid : e \in Taken(editors) \cap {ByteBuffer}}

\* A function of a module, found and called.
Runs == outcome' \in ModuleFns /\ stopped' = "no"

\* Nothing is found behind an identifier that is not in use any more.
FilesOf(bids) == {bytes.slot[b].file : b \in Taken(bytes) \cap bids}

\* page-up does nothing at the start of the file.
Reach ==
  \/ ~Runs /\ UNCHANGED <<reached, paged>>
  \/ /\ Runs /\ outcome' # "page-up"
     /\ reached' = reached \cup FilesOf({ByteBuffer})
     /\ UNCHANGED paged
  \/ /\ Runs /\ outcome' = "page-up"
     /\ paged' \in {paged, paged \cup FilesOf(PageUpBuffers)}
     /\ UNCHANGED reached

\* The start of the screen is not among the lines of another buffer, or of none.
PageUpFails ==
  /\ Runs /\ outcome' = "page-up"
  /\ PageUpBuffers # {ByteBuffer}
  /\ Stop("assert")

\* The first event makes the view, whose constructor reads the input map.
MakeView ==
  /\ phase = "running"
  /\ ReadLine
  /\ UNCHANGED <<bufferVars, reached, paged, early>>

\* Without a file there is no list to show a buffer of, and no key gets here.
KeyStep ==
  /\ phase = "running"
  /\ listed # <<>>
  /\ KeyPressed
  /\ \/ UNCHANGED bufferVars
     \/ Runs /\ outcome' # "page-up" /\ BNext
     \/ PageUpFails
  /\ Reach
  /\ UNCHANGED early

Next == Starting \/ MakeView \/ KeyStep

Spec == Init /\ [][Next]_vars

\* No command works on another file than the one the user sees: the buffer
\* shown was opened for it, and neither the files opened after it nor the
\* modules' buffers, opened and closed in the same tables, take its place.  Of
\* page-up this holds only while no module was given a byte buffer before the
\* files were opened: the numbers of the two tables agree until then, whatever
\* is opened and closed later.
CommandsReachTheFileShown ==
  ~strays =>
    /\ \A f \in reached : f = editors.slot[Shown].file
    /\ ~early => \A f \in paged : f = editors.slot[Shown].file
    /\ ~early /\ outcome = "page-up" => phase # "assert"
=============================================================================
