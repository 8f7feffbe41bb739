---------------------------- MODULE BufferTables ----------------------------
(* The buffers of the program: byte buffers, each an opened file, and editor  *)
(* buffers, each over a byte buffer, in two tables of handles                 *)
(* (api/src/byte_buffer.cpp, editor_buffer.cpp); the files of the command     *)
(* line opened at the start (application.cpp, setup_buffers), and the modules *)
(* loaded before them, which open and close buffers through the same          *)
(* functions at any time.                                                     *)
EXTENDS HandleTable, Sequences, FiniteSets

CONSTANTS Files,            \* what may be opened
          Dummy,            \* /dev/null, opened when no file is given
          Missing,          \* the ones that cannot be
          CommandLines,     \* the files given to the program, sequences
          MaxModuleOpens    \* bound: the buffers the modules open

ASSUME FilesAssumption ==
  /\ Missing \subseteq Files
  /\ Dummy \notin Files
  /\ CommandLines \subseteq Seq(Files)
  /\ MaxModuleOpens \in Nat

VARIABLES bytes,     \* the table of byte buffers: the file of each
          editors,   \* the table of editor buffers: byte buffer, file
          listed,    \* m_buffer_desc_list: the editor buffers of the files
          phase,     \* modules, files, running, or why the program stopped
          todo,      \* the files still to open
          held,      \* the byte buffers a module was given and has not closed
          known,     \* the identifiers of byte buffers modules were ever given
          opens,     \* how many buffers they have opened
          closes,    \* whether a byte buffer was ever closed
          strays     \* whether a module has closed one it did not hold

bufferVars == <<bytes, editors, listed, phase, todo, held, known, opens, closes, strays>>

Byte(f)      == [file |-> f]
Editor(b, f) == [bid |-> b, file |-> f]

BInit ==
  /\ bytes = EmptyTable
  /\ editors = EmptyTable
  /\ listed = <<>>
  /\ phase = "modules"
  /\ todo \in CommandLines
  /\ held = {} /\ known = {}
  /\ opens = 0
  /\ closes = FALSE
  /\ strays = FALSE

Stop(why) ==
  /\ phase' = why
  /\ UNCHANGED <<bytes, editors, listed, todo, held, known, opens, closes, strays>>

\* byte_buffer_open that gives 0: the file cannot be opened, or the table
\* refuses (the mapped file leaks).
NoByteBuffer(f) == f \in Missing \/ Refuses(bytes)

\* The search runs past the end of the table.
ByteOverrun(f) == f \notin Missing /\ Overruns(bytes)

\* editor_buffer_open: the byte buffer first, then the editor buffer over it.
OpensAs(f, b, e) ==
  /\ f \notin Missing
  /\ Finds(bytes, b)
  /\ Finds(editors, e)
  /\ bytes' = Put(bytes, b, Byte(f))
  /\ editors' = Put(editors, e, Editor(b, f))

\* The table of editor buffers gives a null pointer, which is dereferenced, or
\* is read past its end.
EditorFails(f, why) ==
  /\ f \notin Missing
  /\ \E b \in Indices : Finds(bytes, b)
  /\ \/ Refuses(editors) /\ why = "null"
     \/ Overruns(editors) /\ why = "overrun"

\* setup_buffers, for one file of the command line.
OpenFile ==
  /\ phase \in {"modules", "files"}
  /\ todo # <<>>
  /\ \E b, e \in Indices :
       /\ OpensAs(Head(todo), b, e)
       /\ listed' = Append(listed, e)
       /\ todo' = Tail(todo)
       /\ phase' = "files"
  /\ UNCHANGED <<held, known, opens, closes, strays>>

OpenFileFails ==
  /\ phase \in {"modules", "files"}
  /\ todo # <<>>
  /\ \/ NoByteBuffer(Head(todo)) /\ Stop("assert")
     \/ ByteOverrun(Head(todo)) /\ Stop("overrun")
     \/ \E why \in {"null", "overrun"} : EditorFails(Head(todo), why) /\ Stop(why)

\* The end of setup_buffers: without a file, a dummy is opened, and not listed.
FilesDone ==
  /\ phase \in {"modules", "files"}
  /\ todo = <<>>
  /\ listed # <<>>
  /\ phase' = "running"
  /\ UNCHANGED <<bytes, editors, listed, todo, held, known, opens, closes, strays>>

OpenDummy ==
  /\ phase = "modules"
  /\ todo = <<>>
  /\ \/ \E b, e \in Indices : OpensAs(Dummy, b, e) /\ phase' = "running"
     \/ /\ UNCHANGED <<bytes, editors>>
        /\ \/ NoByteBuffer(Dummy) /\ phase' = "assert"
           \/ ByteOverrun(Dummy) /\ phase' = "overrun"
           \/ \E why \in {"null", "overrun"} : EditorFails(Dummy, why) /\ phase' = why
  /\ UNCHANGED <<listed, todo, held, known, opens, closes, strays>>

\* A module opens a byte buffer of its own, when it is loaded or in a command.
ModuleOpens(f) ==
  /\ phase \in {"modules", "running"}
  /\ opens < MaxModuleOpens
  /\ \/ NoByteBuffer(f) /\ UNCHANGED <<bytes, phase, held, known>>
     \/ ByteOverrun(f) /\ phase' = "overrun" /\ UNCHANGED <<bytes, held, known>>
     \/ \E b \in Indices :
          /\ f \notin Missing
          /\ Finds(bytes, b)
          /\ bytes' = Put(bytes, b, Byte(f))
          /\ held' = held \cup {b}
          /\ known' = known \cup {b}
          /\ UNCHANGED phase
  /\ opens' = opens + 1
  /\ UNCHANGED <<editors, listed, todo, closes, strays>>

\* A module opens an editor buffer, which nothing lists and nothing closes.
ModuleOpensEditor(f) ==
  /\ phase \in {"modules", "running"}
  /\ opens < MaxModuleOpens
  /\ \/ NoByteBuffer(f) /\ UNCHANGED <<bytes, editors, phase>>
     \/ ByteOverrun(f) /\ phase' = "overrun" /\ UNCHANGED <<bytes, editors>>
     \/ \E why \in {"null", "overrun"} :
          EditorFails(f, why) /\ phase' = why /\ UNCHANGED <<bytes, editors>>
     \/ \E b, e \in Indices : OpensAs(f, b, e) /\ UNCHANGED phase
  /\ opens' = opens + 1
  /\ UNCHANGED <<listed, todo, held, known, closes, strays>>

\* byte_buffer_close, by a module, of an identifier it was once given: nothing
\* tells whether the buffer behind it is still its own.
ModuleCloses(b) ==
  /\ phase \in {"modules", "running"}
  /\ b \in known
  /\ IF Holds(bytes, b)
     THEN bytes' = Erase(bytes, b) /\ closes' = TRUE
     ELSE UNCHANGED <<bytes, closes>>
  /\ held' = held \ {b}
  /\ strays' = (strays \/ b \notin held)
  /\ UNCHANGED <<editors, listed, phase, todo, known, opens>>

BNext ==
  \/ OpenFile
  \/ OpenFileFails
  \/ FilesDone
  \/ OpenDummy
  \/ \E f \in Files : ModuleOpens(f) \/ ModuleOpensEditor(f)
  \/ \E b \in Indices : ModuleCloses(b)

BSpec == BInit /\ [][BNext]_bufferVars

(******************************** properties ********************************)

BTypeOK ==
  /\ \A t \in {bytes, editors} : t.last \in 0 .. Size - 1 /\ t.used \in Nat
  /\ bytes.slot \in [Indices -> {Free} \cup {Byte(f) : f \in Files \cup {Dummy}}]
  /\ editors.slot \in [Indices -> {Free} \cup {Editor(b, f) : b \in Indices, f \in Files \cup {Dummy}}]
  /\ listed \in Seq(Indices)
  /\ todo \in Seq(Files)
  /\ phase \in {"modules", "files", "running", "assert", "overrun", "null"}
  /\ held \subseteq Indices /\ known \subseteq Indices
  /\ opens \in Nat /\ closes \in BOOLEAN /\ strays \in BOOLEAN

\* Every editor buffer finds its file: its byte buffer is open, holds the file
\* the editor buffer was opened for, and is no other one's and no module's.
\* Two identifiers name it, from two tables that number on their own, and both
\* are used again after a close; only a module that closes a buffer it does not
\* hold (twice, or one that has become another's) breaks it.
BuffersFindTheirFile ==
  ~strays =>
    \A e \in Indices : Holds(editors, e) =>
      LET b == editors.slot[e].bid
      IN  /\ Holds(bytes, b)
          /\ bytes.slot[b].file = editors.slot[e].file
          /\ b \notin held
          /\ \A o \in Indices : Holds(editors, o) /\ o # e => editors.slot[o].bid # b

\* What stops the program has a cause outside of it: the search runs past the
\* end of the table of byte buffers only after one was closed (and never past
\* the end of the editor buffers, which nothing closes); the null pointer of a
\* full table of editor buffers is met only after a stray close, the table of
\* byte buffers refusing before it otherwise.
StopsHaveACause ==
  /\ phase = "overrun" => closes
  /\ phase = "null" => strays

\* The count by which the table decides to grow is the number of its entries,
\* and stays below the size at which it would: a full table is never enlarged.
TablesNeverGrow ==
  \A t \in {bytes, editors} :
    t.used = Cardinality(Taken(t)) /\ t.used < Size
=============================================================================
