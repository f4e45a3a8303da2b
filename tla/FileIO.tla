------------------------------- MODULE FileIO -------------------------------
(***************************************************************************)
(* file.cpp and load_file.cpp, system call by system call: whole files     *)
(* read and written in transfers of any length, RemoveFileIfExists,        *)
(* Readlink, TemporaryFile and TemporaryDir, while another program renames *)
(* files onto the path, deletes it, or writes to the file.                 *)
(***************************************************************************)
EXTENDS Descriptors

CONSTANTS Content,  \* what the caller writes, a sequence of pieces
          MaxLink   \* bound: the length of a symbolic link

\* What the path of a call names, and the files: the one there at first, one
\* the call makes, one the other program brings.
Files == {"old", "new", "other"}
Names == Files \cup {"link", "dir", None}
Inodes == Files \cup {"dir"}
Leads(name) == IF name = "link" THEN "old" ELSE name
Contents == [f \in Files |-> IF f = "new" THEN <<>> ELSE <<f>>]
InitialNames == {"old", "link", "dir", None}

ASSUME ContentAssumption == Content \in Seq(Range(Content)) /\ MaxLink \in Nat
ASSUME NamesAssumption == None \notin Files \cup {"link", "dir"}

In(call, at) == frame.call = call /\ frame.at = at
Call(locals) == Idle /\ frame' = locals /\ UNCHANGED table
Goto(at) == frame' = [frame EXCEPT !.at = at]
Result(ok) == frame' = [frame EXCEPT !.at = "return", !.result = ok]
Opens(i, f) == /\ ~IsFull(Here)
               /\ To(Opened(Here, [inode |-> i]))
               /\ frame' = [f EXCEPT !.fd = Lowest(Here), !.inode = i]

\* unlink(path)
Unlinked(name) == IF name = "dir" THEN name ELSE None
-----------------------------------------------------------------------------
WriteStringToFile == \E name \in InitialNames, follow, modes \in BOOLEAN :
    Call([call |-> "WriteStringToFile", at |-> "open", fd |-> None, name |-> name, data |-> Contents,
          inode |-> None, follow |-> follow, modes |-> modes, left |-> Content, touched |-> FALSE,
          linked |-> name = "link", removed |-> None, result |-> FALSE])
\* On a descriptor of the caller
WriteFully ==
    Call([call |-> "WriteFully", at |-> "write", fd |-> None, data |-> Contents,
          inode |-> "new", left |-> Content, result |-> FALSE])

\* O_CREAT | O_TRUNC, and O_NOFOLLOW
OpenToWrite ==
    /\ In("WriteStringToFile", "open")
    /\ \/ Result(FALSE) /\ UNCHANGED table
       \/ /\ frame.name # "dir" /\ (frame.name = "link" => frame.follow)
          /\ LET i == IF frame.name = None THEN "new" ELSE Leads(frame.name) IN
             Opens(i, [frame EXCEPT !.at = IF frame.modes THEN "fchmod" ELSE "write",
                                    !.name = IF @ = None THEN i ELSE @, !.data[i] = <<>>,
                                    !.linked = frame.name = "link"])
Fchmod == /\ In("WriteStringToFile", "fchmod")
          /\ Goto("fchown") \/ Goto("cleanup")
          /\ UNCHANGED table
Fchown == /\ In("WriteStringToFile", "fchown")
          /\ Goto("write") \/ Goto("cleanup")
          /\ UNCHANGED table

Written(n) == frame' = [frame EXCEPT !.data[frame.inode] = @ \o SubSeq(frame.left, 1, n),
                                     !.left = SubSeq(@, n + 1, Len(@))]
WriteFails == IF frame.call = "WriteFully" THEN Result(FALSE) ELSE Goto("cleanup")
Writes(call) ==
    /\ In(call, "write")
    /\ \/ frame.left = <<>> /\ Result(TRUE)
       \/ \E n \in 1 .. Len(frame.left) : Written(n)
       \/ frame.left # <<>> /\ WriteFails
    /\ UNCHANGED table
WriteStringToFd_Once ==
    /\ In("WriteStringToFile", "write")
    /\ \/ \E n \in 1 .. Len(frame.left) :
            frame' = [frame EXCEPT !.data[frame.inode] = @ \o SubSeq(frame.left, 1, n),
                                   !.at = "return", !.result = TRUE]
       \/ WriteFails
    /\ UNCHANGED table
WriteStringToFd == Writes("WriteStringToFile")
WriteLoop == Writes("WriteFully")

\* unlink by name: what has the name by now goes, whoever brought it.
CleanUpAfterFailedWrite ==
    /\ In("WriteStringToFile", "cleanup")
    /\ frame' = [frame EXCEPT !.name = Unlinked(@), !.at = "return",
                              !.removed = IF frame.name = "dir" THEN None ELSE frame.name]
    /\ UNCHANGED table
-----------------------------------------------------------------------------
ReadFileToString == \E name \in InitialNames, follow \in BOOLEAN :
    Call([call |-> "ReadFileToString", at |-> "open", fd |-> None, name |-> name, data |-> Contents,
          inode |-> None, follow |-> follow, content |-> <<>>, touched |-> FALSE, cut |-> FALSE,
          result |-> FALSE])
\* open takes a directory, and read refuses it.
OpenToRead ==
    /\ In("ReadFileToString", "open")
    /\ \/ Result(FALSE) /\ UNCHANGED table
       \/ /\ frame.name # None /\ (frame.name = "link" => frame.follow)
          /\ Opens(Leads(frame.name), [frame EXCEPT !.at = "read"])
ReadFdToString ==
    /\ In("ReadFileToString", "read")
    /\ \/ Result(FALSE)
       \/ /\ frame.inode \in Files
          /\ LET rest == SubSeq(frame.data[frame.inode], Len(frame.content) + 1,
                                Len(frame.data[frame.inode])) IN
             \/ rest = <<>> /\ Result(TRUE)
             \/ \E n \in 1 .. Len(rest) :
                   frame' = [frame EXCEPT !.content = @ \o SubSeq(rest, 1, n)]
    /\ UNCHANGED table

\* ReadFully and ReadFullyAtOffset on a descriptor of the caller, whose file
\* position another reader moves.  got is which bytes came.
Size == 3
ReadFully == \E offset \in 0 .. 1, byte_count \in 0 .. 3, atOffset \in BOOLEAN :
    Call([call |-> "ReadFully", at |-> "read", fd |-> None, offset |-> offset, start |-> offset,
          count |-> byte_count, atOffset |-> atOffset, got |-> <<>>, result |-> FALSE])
ReadLoop ==
    /\ In("ReadFully", "read")
    /\ LET remaining == frame.count - Len(frame.got)
           there == Size - frame.offset
       IN  \/ remaining = 0 /\ Result(TRUE)
           \/ remaining > 0 /\ Result(FALSE)
           \/ \E n \in 1 .. Min({remaining, there}) :
                 frame' = [frame EXCEPT !.got = @ \o [i \in 1 .. n |-> frame.offset + i - 1],
                                        !.offset = @ + n]
    /\ UNCHANGED table
OtherReader ==
    /\ In("ReadFully", "read") /\ ~frame.atOffset /\ frame.offset < Size
    /\ frame' = [frame EXCEPT !.offset = @ + 1]
    /\ UNCHANGED table
-----------------------------------------------------------------------------
\* load_file: the size first, then one read, which has to give all of it.
load_file == \E name \in InitialNames :
    Call([call |-> "load_file", at |-> "open", fd |-> None, name |-> name, data |-> Contents,
          inode |-> None, size |-> 0, content |-> <<>>, touched |-> FALSE, cut |-> FALSE,
          result |-> FALSE])
OpenToLoad ==
    /\ In("load_file", "open")
    /\ \/ Result(FALSE) /\ UNCHANGED table
       \/ frame.name # None /\ Opens(Leads(frame.name), [frame EXCEPT !.at = "lseek"])
Lseek ==
    /\ In("load_file", "lseek")
    /\ \/ Result(FALSE)
       \/ /\ frame.inode \in Files
          /\ frame' = [frame EXCEPT !.at = "read", !.size = Len(frame.data[frame.inode])]
    /\ UNCHANGED table
ReadAtOnce ==
    /\ In("load_file", "read")
    /\ \/ Result(FALSE)
       \/ \E n \in 0 .. Min({frame.size, Len(frame.data[frame.inode])}) :
             frame' = [frame EXCEPT !.content = SubSeq(frame.data[frame.inode], 1, n),
                                    !.at = "return", !.result = n = frame.size]
    /\ UNCHANGED table
-----------------------------------------------------------------------------
RemoveFileIfExists == \E name \in InitialNames :
    Call([call |-> "RemoveFileIfExists", at |-> "lstat", fd |-> None, name |-> name,
          touched |-> FALSE, failed |-> FALSE, result |-> FALSE])
Fails == frame' = [frame EXCEPT !.at = "return", !.failed = TRUE]
Lstat ==
    /\ In("RemoveFileIfExists", "lstat")
    /\ \/ Fails
       \/ frame.name = None /\ Result(TRUE)
       \/ frame.name = "dir" /\ Result(FALSE)
       \/ frame.name \notin {"dir", None} /\ Goto("unlink")
    /\ UNCHANGED table
Unlink ==
    /\ In("RemoveFileIfExists", "unlink")
    /\ \/ Fails
       \/ frame.name \in {"dir", None} /\ Result(FALSE)
       \/ /\ frame.name \notin {"dir", None}
          /\ frame' = [frame EXCEPT !.name = None, !.at = "return", !.result = TRUE]
    /\ UNCHANGED table

\* The buffer doubles until the link fits with room to spare.
Readlink == \E length \in 1 .. MaxLink :
    Call([call |-> "Readlink", at |-> "readlink", fd |-> None, length |-> length, size |-> 2,
          text |-> 0, result |-> FALSE])
ReadlinkLoop_Same ==
    /\ In("Readlink", "readlink")
    /\ frame.length < frame.size
    /\ frame' = [frame EXCEPT !.text = frame.length, !.at = "return", !.result = TRUE]
    /\ UNCHANGED table
ReadlinkLoop ==
    /\ In("Readlink", "readlink")
    /\ \/ /\ frame.length < frame.size
          /\ frame' = [frame EXCEPT !.text = frame.length, !.at = "return", !.result = TRUE]
       \/ frame.length >= frame.size /\ frame' = [frame EXCEPT !.size = 2 * @]
    /\ UNCHANGED table
ReadlinkFails == In("Readlink", "readlink") /\ Result(FALSE) /\ UNCHANGED table
Relink == \E length \in 1 .. MaxLink :
    /\ In("Readlink", "readlink")
    /\ frame' = [frame EXCEPT !.length = length]
    /\ UNCHANGED table
-----------------------------------------------------------------------------
\* A TemporaryFile and a TemporaryDir, from constructor to destructor.
TemporaryFile ==
    /\ Idle
    /\ \E made \in BOOLEAN :
          /\ made => ~IsFull(Here)
          /\ To(IF made THEN Opened(Here, [inode |-> "new"]) ELSE Here)
          /\ frame' = [call |-> "TemporaryFile", at |-> "alive", fd |-> IF made THEN Lowest(Here) ELSE None,
                       name |-> IF made THEN "new" ELSE None, remove |-> TRUE, result |-> FALSE]
TemporaryRelease == \E h \in Handle :
    /\ In("TemporaryFile", "alive")
    /\ To(reset(Here, h, frame.fd))
    /\ frame' = [frame EXCEPT !.fd = None]
TemporaryDestroyed ==
    /\ In("TemporaryFile", "alive")
    /\ To(close(Here, frame.fd))
    /\ frame' = [frame EXCEPT !.at = "return", !.fd = None,
                              !.name = IF frame.remove THEN Unlinked(@) ELSE @]

Children == {"file", "link", "sub"}
\* Nobody looks whether mkdtemp failed.
TemporaryDir == \E made \in BOOLEAN :
    Call([call |-> "TemporaryDir", at |-> "alive", fd |-> None, made |-> made, there |-> made,
          contents |-> {}, todo |-> {}, remove |-> TRUE, failed |-> FALSE, touched |-> FALSE,
          result |-> FALSE])
Fill == \E child \in Children :
    /\ In("TemporaryDir", "alive") \/ In("TemporaryDir", "walk")
    /\ frame.there
    /\ frame' = [frame EXCEPT !.contents = @ \cup {child}, !.touched = frame.at = "walk"]
    /\ UNCHANGED table
DoNotRemove == /\ In("TemporaryFile", "alive") \/ In("TemporaryDir", "alive")
               /\ frame' = [frame EXCEPT !.remove = FALSE]
               /\ UNCHANGED table
\* nftw lists the directory, for which it needs a descriptor, and calls back for
\* its children before itself; what rmdir or unlink refuse stays.
StartWalk ==
    /\ In("TemporaryDir", "alive")
    /\ \/ ~frame.remove /\ Goto("return")
       \/ frame.remove /\ Fails
       \/ /\ frame.remove /\ frame.there /\ ~IsFull(Here)
          /\ frame' = [frame EXCEPT !.at = "walk", !.todo = frame.contents]
    /\ UNCHANGED table
WalkChild == \E child \in frame.todo, ok \in BOOLEAN :
    frame' = [frame EXCEPT !.todo = @ \ {child}, !.contents = IF ok THEN @ \ {child} ELSE @,
                           !.failed = @ \/ ~ok]
WalkSelf ==
    \/ frame' = [frame EXCEPT !.at = "return", !.there = frame.contents # {}]
    \/ frame' = [frame EXCEPT !.at = "return", !.failed = TRUE]
Walk ==
    /\ In("TemporaryDir", "walk")
    /\ IF frame.todo # {} THEN WalkChild ELSE WalkSelf
    /\ UNCHANGED table
-----------------------------------------------------------------------------
\* The destructors of the call's own objects.
FileReturn ==
    /\ ~Idle /\ frame.at = "return" /\ "result" \in DOMAIN frame
    /\ To(close(Here, frame.fd))
    /\ frame' = NoCall

FileCall == WriteStringToFile \/ WriteFully \/ ReadFileToString \/ ReadFully \/ RemoveFileIfExists
            \/ Readlink \/ TemporaryFile \/ TemporaryDir \/ load_file
FileStep == OpenToWrite \/ Fchmod \/ Fchown \/ WriteStringToFd \/ WriteLoop \/ CleanUpAfterFailedWrite
            \/ OpenToRead \/ ReadFdToString \/ ReadLoop
            \/ OpenToLoad \/ Lseek \/ ReadAtOnce \/ Lstat \/ Unlink \/ ReadlinkLoop
            \/ TemporaryDestroyed \/ StartWalk \/ Walk \/ FileReturn
FileCaller == TemporaryRelease \/ DoNotRemove

\* The other program, until the call returns, and what it does to a link.
OnPath == /\ frame.call \in {"WriteStringToFile", "ReadFileToString", "RemoveFileIfExists", "load_file"}
          /\ frame.at # "return"
Renames == \E name \in {"other", "dir", None} :
    /\ OnPath
    /\ frame' = [frame EXCEPT !.name = name, !.touched = TRUE]
    /\ UNCHANGED table
Appends ==
    /\ frame.call \in {"ReadFileToString", "load_file"} /\ frame.at # "return"
    /\ Len(frame.data["old"]) < 3
    /\ frame' = [frame EXCEPT !.data["old"] = Append(@, "more")]
    /\ UNCHANGED table
Truncates ==
    /\ frame.call \in {"ReadFileToString", "load_file"} /\ frame.at # "return"
    /\ frame.data["old"] # <<>>
    /\ frame' = [frame EXCEPT !.data["old"] = <<>>, !.cut = TRUE]
    /\ UNCHANGED table
OtherProgram == ReadlinkFails \/ Renames \/ Appends \/ Truncates \/ OtherReader \/ Relink \/ Fill
-----------------------------------------------------------------------------
\* true: all of the content is in the file, and the file has the name, unless
\* another program has taken the name.  false: the part that was written has
\* not the name, unless the name was a link to the file; and the clean-up took
\* away the file that was opened, or the link, or nothing: it removes another
\* program's file only when that program put it on the path meanwhile.
WrittenIsWhole ==
    In("WriteStringToFile", "return") =>
        /\ IF frame.result
           THEN /\ frame.data[frame.inode] = Content
                /\ ~frame.touched => Leads(frame.name) = frame.inode
           ELSE frame.inode # None /\ ~frame.linked => Leads(frame.name) # frame.inode
        /\ frame.removed # None => ~frame.result /\ frame.inode # None
        /\ frame.removed # None /\ ~frame.touched =>
              frame.removed = IF frame.linked THEN "link" ELSE frame.inode

\* true: the content is that of the file when its end was seen, and of a file
\* that another program cut meanwhile it is no less than the file then held
\* (ReadFileToString goes on where it was, and what it has read may be gone);
\* for load_file, that of the file when it read, as much as there was when it
\* asked for the size; the bytes are those asked for, however others append to
\* the file or move its position.
ReadIsWhole ==
    /\ In("ReadFileToString", "return") /\ frame.result =>
          IF frame.cut THEN Len(frame.content) >= Len(frame.data[frame.inode])
          ELSE frame.content = frame.data[frame.inode]
    /\ In("load_file", "return") /\ frame.result =>
          /\ Len(frame.content) = frame.size
          /\ frame.content = SubSeq(frame.data[frame.inode], 1, frame.size)
    /\ In("WriteFully", "return") /\ frame.result => frame.data[frame.inode] = Content
    /\ In("ReadFully", "return") =>
          /\ frame.result = (Len(frame.got) = frame.count)
          /\ frame.atOffset => frame.got = [i \in DOMAIN frame.got |-> frame.start + i - 1]
          /\ \A i, j \in DOMAIN frame.got : i < j => frame.got[i] < frame.got[j]

\* RemoveFileIfExists: true only when the name is free, false only for a
\* directory, an error or a name another program has touched.  Readlink gives
\* the whole text.  Temporary files and directories go with their objects, but
\* for what could not be made or removed or was put there meanwhile.
NamesAreRight ==
    /\ In("RemoveFileIfExists", "return") =>
          IF frame.result THEN frame.name = None
          ELSE frame.name = "dir" \/ frame.failed \/ frame.touched
    /\ In("Readlink", "return") /\ frame.result => frame.text = frame.length
    /\ In("TemporaryFile", "return") /\ frame.remove => frame.name = None
    /\ In("TemporaryDir", "return") =>
          IF frame.remove THEN frame.there => frame.failed \/ frame.touched
          ELSE frame.there = frame.made

\* What a call of file.cpp reports about files, contents and names is so.
TransfersAreWhole == WrittenIsWhole /\ ReadIsWhole /\ NamesAreRight
=============================================================================
