----------------------------- MODULE FileSource -----------------------------
(***************************************************************************)
(* FileSource (src/src/capture/fileSource.cpp) in the capture thread of    *)
(* TSSource: what doStart, doStop, readDataInto and the destructor do with *)
(* the file handle, which the callers and the reader thread share without  *)
(* a lock around the reads.  The file is Chunks reads long.  Steps of this *)
(* module are steps of TSSource, or leave its variables alone.             *)
(***************************************************************************)
EXTENDS TSSource, Integers

CONSTANTS Preload,     \* m_Preload: the file is read into memory by doStart
          Chunks,      \* the file's length, in reads of readDataInto
          Failures,    \* what may fail: "open" (fopen), "format" (of the file), "read" (fread)
          MaxHandles   \* the FILE objects that the program may have open: fopen
                       \* fails beyond

ASSUME FileSourceAssumption ==
  /\ Preload \in BOOLEAN
  /\ Chunks \in Nat \ {0}
  /\ Failures \subseteq {"open", "format", "read"}
  /\ MaxHandles \in Nat \ {0}

VARIABLES m_File,     \* "garbage": never assigned; "dangling": closed, not yet null
          filePos,    \* position of m_File
          ferror,     \* of m_File: 1 from the first fread of it that fails
          m_Content,  \* length of the preloaded content
          m_Offset,   \* position in it
          reading,    \* which branch of readDataInto the reader is in
          handles,    \* FILE objects open
          \* what happened, which the code does not count:
          refused,    \* calls of start() that refused the format of the file
          delivered   \* whole reads that returned data since the last start()

fileVars == <<m_File, filePos, ferror, m_Content, m_Offset, reading, handles, refused,
              delivered>>
allVars  == <<vars, fileVars>>

FileInit ==
  /\ Init
  /\ m_File = "garbage"     \* the constructor does not assign it
  /\ filePos = 0 /\ ferror = 0 /\ m_Content = 0 /\ m_Offset = 0
  /\ reading = "no"
  /\ handles = 0 /\ refused = 0 /\ delivered = 0

-----------------------------------------------------------------------------
(* doStart: the file is opened and its beginning searched for two packets   *)

CanOpen     == handles < MaxHandles
ReadMayFail == IF "read" \in Failures THEN {0, 1} ELSE {0}

OpenAndKeepUnsought(c) ==   \* faulty: no fseek after the search of the beginning
  /\ ~Preload /\ CanOpen
  /\ DoStart(c)
  /\ m_File' = "open" /\ filePos' = 1 /\ ferror' \in ReadMayFail
  /\ handles' = handles + 1
  /\ UNCHANGED <<m_Content, m_Offset, reading, refused, delivered>>

\* fopen overwrites m_File, whatever it was.  m_Offset is left alone.  The search
\* does not look at ferror: a read that fails in it may still have found packets.
OpenAndKeep(c) ==
  /\ ~Preload /\ CanOpen
  /\ DoStart(c)
  /\ m_File' = "open" /\ filePos' = 0 /\ ferror' \in ReadMayFail
  /\ handles' = handles + 1
  /\ UNCHANGED <<m_Content, m_Offset, reading, refused, delivered>>

\* What the fread of the content returns is not looked at either: the content
\* has the length of the file.
OpenAndPreload(c) ==
  /\ Preload /\ CanOpen
  /\ DoStart(c)
  /\ m_File' = "null" /\ ferror' = 0
  /\ m_Content' = Chunks
  /\ UNCHANGED <<filePos, m_Offset, reading, handles, refused, delivered>>

OpenFails(c) ==
  /\ "open" \in Failures \/ ~CanOpen
  /\ DoStartThrows(c)
  /\ m_File' = "null" /\ ferror' = 0
  /\ UNCHANGED <<filePos, m_Content, m_Offset, reading, handles, refused, delivered>>

\* No packet was found in the file, or it was not read: the exception leaves the
\* file open, and the next fopen or the destructor finds it in m_File.
FormatFails(c) ==
  /\ {"format", "read"} \cap Failures # {} /\ CanOpen
  /\ DoStartThrows(c)
  /\ m_File' = "open" /\ filePos' = 0 /\ ferror' \in ReadMayFail
  /\ handles' = handles + 1 /\ refused' = refused + 1
  /\ UNCHANGED <<m_Content, m_Offset, reading, delivered>>

FileSpawn(c) ==
  /\ Spawn(c)
  /\ delivered' = 0
  /\ UNCHANGED <<m_File, filePos, ferror, m_Content, m_Offset, reading, handles, refused>>

-----------------------------------------------------------------------------
(* doStop: fclose(m_File); m_File = nullptr *)

CloseNothing(c) ==   \* faulty: the pointer is dropped without fclose
  /\ At(c, "doStop") /\ m_File = "open"
  /\ m_File' = "null"
  /\ UNCHANGED <<vars, filePos, ferror, m_Content, m_Offset, reading, handles, refused, delivered>>

CloseFile(c) ==
  /\ At(c, "doStop") /\ m_File = "open"
  /\ m_File' = "dangling" /\ handles' = handles - 1
  /\ UNCHANGED <<vars, filePos, ferror, m_Content, m_Offset, reading, refused, delivered>>

ForgetFile(c) ==
  /\ m_File # "open"
  /\ DoStop(c)
  /\ m_File' = "null"
  /\ UNCHANGED <<filePos, ferror, m_Content, m_Offset, reading, handles, refused, delivered>>

-----------------------------------------------------------------------------
(* readDataInto *)

TestFile ==   \* if (m_File)
  /\ reader = "read" /\ reading = "no"
  /\ reading' = IF m_File = "null" THEN "content" ELSE "file"
  /\ UNCHANGED <<vars, m_File, filePos, ferror, m_Content, m_Offset, handles, refused, delivered>>

ReadFileWaits ==   \* faulty: at the end of the file the read waits for more
  /\ reading = "file" /\ m_File = "open"
  /\ filePos < Chunks /\ ferror = 0
  /\ ReadReturns("handle")
  /\ filePos' = filePos + 1 /\ delivered' = delivered + 1
  /\ reading' = "no"
  /\ UNCHANGED <<m_File, ferror, m_Content, m_Offset, handles, refused>>

\* ferror, feof and fread on a file that is open.  An fread that fails returns
\* what it had read, or 0, which the reader takes for the end of the stream; only
\* the next call sees ferror, and so does every call after it.
ReadFile ==
  /\ reading = "file" /\ m_File = "open"
  /\ \/ /\ ferror = 1
        /\ ReadReturns("loop") /\ UNCHANGED <<filePos, ferror, delivered>>
     \/ /\ ferror = 0 /\ "read" \in Failures
        /\ ReadReturns("handle") \/ ReadReturns("flush")
        /\ ferror' = 1 /\ UNCHANGED <<filePos, delivered>>
     \/ /\ ferror = 0 /\ filePos < Chunks
        /\ ReadReturns("handle")
        /\ filePos' = filePos + 1 /\ delivered' = delivered + 1
        /\ UNCHANGED ferror
     \/ /\ ferror = 0 /\ filePos = Chunks
        /\ ReadReturns("flush") /\ UNCHANGED <<filePos, ferror, delivered>>
  /\ reading' = "no"
  /\ UNCHANGED <<m_File, m_Content, m_Offset, handles, refused>>

\* The same on a file that was closed in between: undefined, anything may return.
ReadClosedFile ==
  /\ reading = "file" /\ m_File # "open"
  /\ \E to \in {"loop", "handle", "flush"} : ReadReturns(to)
  /\ reading' = "no"
  /\ UNCHANGED <<m_File, filePos, ferror, m_Content, m_Offset, handles, refused, delivered>>

ReadContentForever ==   \* faulty: m_Offset is not advanced
  /\ reading = "content"
  /\ ReadReturns(IF Preload /\ m_Offset < m_Content THEN "handle" ELSE "flush")
  /\ reading' = "no"
  /\ UNCHANGED <<m_File, filePos, ferror, m_Content, m_Offset, handles, refused, delivered>>

ReadContent ==
  /\ reading = "content"
  /\ IF Preload /\ m_Offset < m_Content
       THEN /\ ReadReturns("handle")
            /\ m_Offset' = m_Offset + 1 /\ delivered' = delivered + 1
       ELSE ReadReturns("flush") /\ UNCHANGED <<m_Offset, delivered>>
  /\ reading' = "no"
  /\ UNCHANGED <<m_File, filePos, ferror, m_Content, handles, refused>>

-----------------------------------------------------------------------------
(* ~FileSource, after stop(): if (m_File) fclose(m_File) *)

CloseAndFinish(c) ==
  /\ FinishDestroy(c)
  /\ handles' = IF m_File = "open" THEN handles - 1 ELSE handles
  /\ UNCHANGED <<m_File, filePos, ferror, m_Content, m_Offset, reading, refused, delivered>>

-----------------------------------------------------------------------------

FileCallerStep(c) ==
  \/ OpenAndKeep(c) \/ OpenAndPreload(c) \/ OpenFails(c) \/ FormatFails(c)
  \/ FileSpawn(c)
  \/ CloseFile(c) \/ ForgetFile(c)
  \/ CloseAndFinish(c)
  \/ /\ ClearStarted(c) \/ Join(c) \/ (At(c, "destroy") /\ (StopAgain(c) \/ BeginStop(c)))
     /\ UNCHANGED fileVars

FileReaderStep ==
  \/ TestFile \/ ReadFile \/ ReadClosedFile \/ ReadContent
  \/ /\ EnterLoop \/ TestStarted \/ Handle \/ Flush \/ Finish \/ Cleanup
     /\ UNCHANGED fileVars

FileNext ==
  \/ FileReaderStep
  \/ \E c \in Callers : FileCallerStep(c) \/ (Call(c) /\ UNCHANGED fileVars)

FileFairness == WF_allVars(FileReaderStep) /\ \A c \in Callers : WF_allVars(FileCallerStep(c))

FileSpec == FileInit /\ [][FileNext]_allVars /\ FileFairness

-----------------------------------------------------------------------------

\* Type invariant: no position passes the end of what it is in.
FileTypeOK ==
  /\ m_File \in {"garbage", "null", "open", "dangling"}
  /\ filePos \in 0 .. Chunks /\ m_Content \in {0, Chunks} /\ m_Offset \in 0 .. m_Content
  /\ reading \in {"no", "file", "content"} /\ (reading # "no" => reader = "read")
  /\ handles \in 0 .. MaxHandles /\ refused \in Nat /\ ferror \in {0, 1}
  /\ delivered \in 0 .. Chunks
  /\ reader # "none" => delivered <= IF Preload THEN m_Offset ELSE filePos

\* FileSource is a TSSource: it keeps its protocol and its progress.
ImplementsTSSource == Spec

\* The reader never uses a FILE that stop() has closed.  (Holds for a preloaded
\* file only: doStop closes the file before the reader is told to stop.)
NoUseAfterClose == reading = "file" => m_File = "open"

\* Which files are open: that of the capture, from doStart to doStop, and one for
\* each start() that refused the format of the file.  stop(), a restart and a
\* start() that cannot open the file leave no file open of their own; the
\* destructor closes the last refused one if nothing was started after it, and
\* nobody closes the others.
HandlesAccounted ==
  /\ object # "gone" =>
       handles = IF m_Started /\ m_File = "open" THEN refused + 1 ELSE refused
  /\ object = "gone" =>
       handles = IF m_File = "open" THEN refused - 1 ELSE refused

\* Why: a source is started with a file of its own, stop() has closed it before
\* it says so, and what m_File holds otherwise was left by a refused start().
FileInductiveInv ==
  /\ InductiveInv
  /\ FileTypeOK
  /\ m_File = "open" /\ (m_Started \/ reader # "none") => ~Preload
  /\ \A c \in Callers : At(c, "clear") => m_File # "open"
  /\ m_File = "open" /\ ~m_Started => refused > 0
  /\ HandlesAccounted

\* What the reader and the callers know of the file, whatever fails in doStart:
\* a preloaded source has no file while it has a reader; otherwise the reader
\* finds its file open and counts what it reads of it, until somebody takes the
\* mutex to stop it.
ReaderFileInv ==
  /\ InductiveInv
  /\ reading \in {"no", "file", "content"} /\ (reading # "no" => reader = "read")
  /\ \A c \in Callers : At(c, "spawn") =>
       IF Preload THEN m_File = "null" ELSE m_File = "open" /\ filePos = 0
  /\ (Preload /\ reader # "none") => m_File = "null" /\ reading # "file"
  /\ (~Preload /\ reader # "none") => delivered = filePos
  /\ (~Preload /\ reader # "none" /\ mutex = NoOwner) =>
       /\ m_File = "open" /\ reading # "content"
       /\ reader = "flush" => filePos = Chunks \/ ferror = 1

\* The file that the reader uses is closed under it, if at all, by the stop() in
\* progress: not by a start() that fails, and not once stop() has returned.
UseAfterCloseOnlyInStop ==
  (reading = "file" /\ m_File # "open") =>
    \E c \in Callers : pc[c] \in {"doStop", "clear", "join"}

\* "Zero means EOS reached": when the reader ends because readDataInto returned
\* 0 and nobody is stopping it, the whole file was delivered since start(), unless
\* a read of it failed: zero is also what fread returns then.
EosMeansAllDelivered ==
  (reader = "flush" /\ mutex = NoOwner) => delivered = Chunks \/ ferror = 1

=============================================================================
