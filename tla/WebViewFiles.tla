---------------------------- MODULE WebViewFiles ----------------------------
(***************************************************************************)
(* The commands of WebViewImpl that work on remote objects of the page     *)
(* (chrome/web_view_impl.cc): GetFrameByFunction, GetBackendNodeIdByElement *)
(* and SetFileInputFiles.                                                   *)
(*                                                                         *)
(* Each of them is a series of round trips to the browser.  Between two    *)
(* round trips the page goes on: a script replaces the files of the input  *)
(* element, a navigation destroys the document with its nodes and remote   *)
(* objects.  One action is one round trip with what the code does with the *)
(* answer; `pc` names the round trip that comes next.                      *)
(*                                                                         *)
(* `seen`, `sent` and `unreleased` are history variables.                  *)
(***************************************************************************)
EXTENDS Naturals, Sequences, FiniteSets, SequencesExt

CONSTANTS
    Paths,           \* absolute, canonical file paths
    Relative,        \* a path SetFileInputFiles refuses
    None,            \* an unset local, a missing field
    MaxFiles,        \* bound on the files of the element and of a list sent
    MaxObjects,      \* bound on the remote object ids the browser hands out
    MaxNavigations,  \* bound on the documents the frame loads
    MaxSeen          \* bound on the file lists the page shows one command

ASSUME /\ {MaxFiles, MaxObjects, MaxNavigations, MaxSeen} \subseteq Nat
       /\ Relative \notin Paths

VARIABLES
    document,   \* browser: the number of the document in the frame; it
                \* stands for the backend node id of the input element too
    files,      \* browser: the paths of the element's FileList
    objects,    \* browser: the remote objects kept alive for the client
    allocated,  \* browser: remote object ids handed out
    pc,         \* the round trip the running command makes next, or "idle"
    cmd,        \* the command and its arguments
    local,      \* its local variables
    status,     \* the Status the last command returned
    seen,       \* history: the file lists the element had during the command
    sent,       \* history: the list of the last DOM.setFileInputFiles
    unreleased  \* history: the objects whose Runtime.releaseObject failed

browser == <<document, files, objects, allocated>>
vars == <<browser, pc, cmd, local, status, seen, sent, unreleased>>

Commands == {"GetFrameByFunction", "GetBackendNodeIdByElement",
             "SetFileInputFiles"}

\* What a failed SendCommand returns, and what the code makes of an answer
\* that lacks a field.
Failures == {"kDisconnected", "kUnknownError"}

StatusCode == Failures \cup {"kOk", "kNoSuchFrame", "kNoSuchElement"}

FileLists == BoundedSeq(Paths, MaxFiles)

RemoteObject ==
    [id : 1..MaxObjects,
     by : {"Runtime.evaluate", "DOM.resolveNode", "Runtime.callFunctionOn"},
     path : Paths \cup {None}]

NoLocals ==
    [guard |-> None, pending |-> "kOk", backend_node_id |-> None,
     inner_remote_object_id |-> None, number_of_files |-> 0, i |-> 0,
     file_object_id |-> None, file_list |-> <<>>]

\* The most remote objects one command asks for.
PerCommand == MaxFiles + 2

-----------------------------------------------------------------------------

Return(code) ==
    /\ pc' = "idle"
    /\ status' = code
    /\ local' = NoLocals

\* The answer to a round trip carries a new remote object.
NewObject(by, path) ==
    [id |-> allocated + 1, by |-> by, path |-> path]

Keep(object) ==
    /\ objects' = objects \cup {object}
    /\ allocated' = allocated + 1

\* found_node stays false: no object id in the answer, no frameId in the
\* node.
NotFound(op) ==
    IF op = "GetFrameByFunction" THEN "kNoSuchFrame" ELSE "kNoSuchElement"

\* What DOM.describeNode can come to besides a node with all its fields.
DescribeFailures(op) ==
    Failures \cup {code \in {"kNoSuchFrame"} : op = "GetFrameByFunction"}

\* The command starts: the element must be a dictionary, the frame must
\* have a context, and Runtime.evaluate must answer with an object, which
\* goes under a RemoteObjectReleaseGuard.
EvaluateScriptAndGetObject(op) ==
    \/ /\ \E code \in Failures \cup {"kNoSuchFrame", NotFound(op)} :
              Return(code)
       /\ UNCHANGED browser
    \/ /\ Keep(NewObject("Runtime.evaluate", None))
       /\ pc' = "describe"
       /\ local' = [NoLocals EXCEPT
                        !.guard = NewObject("Runtime.evaluate", None)]
       /\ UNCHANGED <<document, files, status>>

Call(op, new_files, append) ==
    /\ pc = "idle"
    /\ allocated + PerCommand <= MaxObjects
    /\ Len(files) + Len(new_files) <= MaxFiles
    /\ cmd' = [op |-> op, files |-> new_files, append |-> append]
    /\ seen' = {files}
    /\ EvaluateScriptAndGetObject(op)
    /\ UNCHANGED <<sent, unreleased>>

GetFrameByFunction == Call("GetFrameByFunction", <<>>, FALSE)

GetBackendNodeIdByElement == Call("GetBackendNodeIdByElement", <<>>, FALSE)

SetFileInputFiles(new_files, append) ==
    Call("SetFileInputFiles", new_files, append)

DescribeNode_ReturnsAtOnce ==
    /\ pc = "describe"
    /\ \/ \E code \in DescribeFailures(cmd.op) :
              Return(code)
       \/ /\ local.guard \in objects
          /\ pc' = "release"
          /\ local' = [local EXCEPT !.backend_node_id = document]
          /\ UNCHANGED status
    /\ UNCHANGED <<browser, cmd, seen, sent, unreleased>>

\* DOM.describeNode on the guarded object.  Whatever comes of it, the guard
\* goes out of scope next.
DescribeNode ==
    /\ pc = "describe"
    /\ \/ \E code \in DescribeFailures(cmd.op) :
              local' = [local EXCEPT !.pending = code]
       \/ /\ local.guard \in objects
          /\ local' = [local EXCEPT !.backend_node_id = document]
    /\ pc' = "release"
    /\ UNCHANGED <<browser, cmd, status, seen, sent, unreleased>>

\* ~RemoteObjectReleaseGuard: Runtime.releaseObject, whose failure is
\* logged and dropped: the browser may keep the object then.  The caller
\* goes on: SetFileInputFiles has more to do.
ReleaseRemoteObject ==
    /\ pc = "release"
    /\ \/ /\ objects' = objects \ {local.guard}
          /\ UNCHANGED unreleased
       \/ /\ local.guard \in objects
          /\ unreleased' = unreleased \cup {local.guard}
          /\ UNCHANGED objects
    /\ \/ /\ local.pending # "kOk" \/ cmd.op # "SetFileInputFiles"
          /\ Return(local.pending)
       \/ /\ local.pending = "kOk" /\ cmd.op = "SetFileInputFiles"
          /\ pc' = IF cmd.append THEN "resolve" ELSE "set"
          /\ local' = [local EXCEPT !.guard = None]
          /\ UNCHANGED status
    /\ UNCHANGED <<document, files, allocated, cmd, seen, sent>>

\* DOM.resolveNode: the node id becomes a remote object again.
ResolveNode ==
    /\ pc = "resolve"
    /\ \/ /\ \E code \in Failures : Return(code)
          /\ UNCHANGED browser
       \/ /\ local.backend_node_id = document
          /\ Keep(NewObject("DOM.resolveNode", None))
          /\ local' = [local EXCEPT !.inner_remote_object_id =
                                        NewObject("DOM.resolveNode", None)]
          /\ pc' = "length"
          /\ UNCHANGED <<document, files, status>>
    /\ UNCHANGED <<cmd, seen, sent, unreleased>>

\* The head of the loop over the files of the element.
NextFile_SkipsLast(i, number_of_files) ==
    IF i + 1 < number_of_files THEN "item" ELSE "set"

NextFile(i, number_of_files) ==
    IF i < number_of_files THEN "item" ELSE "set"

\* Runtime.callFunctionOn "this.files.length".
FilesLength ==
    /\ pc = "length"
    /\ \/ \E code \in Failures : Return(code)
       \/ /\ local.inner_remote_object_id \in objects
          /\ local' = [local EXCEPT !.number_of_files = Len(files)]
          /\ pc' = NextFile(0, Len(files))
          /\ UNCHANGED status
    /\ UNCHANGED <<browser, cmd, seen, sent, unreleased>>

\* Runtime.callFunctionOn "this.files[i]": past the end of the list the
\* answer is undefined and has no object id.
FileItem ==
    /\ pc = "item"
    /\ \/ /\ \E code \in Failures : Return(code)
          /\ UNCHANGED browser
       \/ /\ local.inner_remote_object_id \in objects
          /\ local.i < Len(files)
          /\ Keep(NewObject("Runtime.callFunctionOn", files[local.i + 1]))
          /\ local' = [local EXCEPT !.file_object_id =
                           NewObject("Runtime.callFunctionOn",
                                     files[local.i + 1])]
          /\ pc' = "info"
          /\ UNCHANGED <<document, files, status>>
    /\ UNCHANGED <<cmd, seen, sent, unreleased>>

GetFileInfo_SameFileAgain ==
    /\ pc = "info"
    /\ \/ \E code \in Failures : Return(code)
       \/ /\ local.file_object_id \in objects
          /\ local' = [local EXCEPT
                           !.file_list = Append(@, local.file_object_id.path)]
          /\ pc' = NextFile(local.i, local.number_of_files)
          /\ UNCHANGED status
    /\ UNCHANGED <<browser, cmd, seen, sent, unreleased>>

\* DOM.getFileInfo: the path of the file goes on the list, and the loop
\* goes round.
GetFileInfo ==
    /\ pc = "info"
    /\ \/ \E code \in Failures : Return(code)
       \/ /\ local.file_object_id \in objects
          /\ local' = [local EXCEPT
                           !.file_list = Append(@, local.file_object_id.path),
                           !.i = @ + 1]
          /\ pc' = NextFile(local.i + 1, local.number_of_files)
          /\ UNCHANGED status
    /\ UNCHANGED <<browser, cmd, seen, sent, unreleased>>

FileList_NewFirst(file_list, new_files) == new_files \o file_list

\* "we need to add the old files first so that it looks like we're
\* appending files"
FileList(file_list, new_files) == file_list \o new_files

\* The new files are checked and added, and DOM.setFileInputFiles sets the
\* list.
SetFiles ==
    /\ pc = "set"
    /\ \/ /\ Relative \in ToSet(cmd.files)
          /\ Return("kUnknownError")
          /\ UNCHANGED <<files, sent>>
       \/ /\ Relative \notin ToSet(cmd.files)
          /\ Return("kDisconnected")
          /\ UNCHANGED <<files, sent>>
       \/ /\ Relative \notin ToSet(cmd.files)
          /\ local.backend_node_id = document
          /\ files' = FileList(local.file_list, cmd.files)
          /\ sent' = files'
          /\ Return("kOk")
    /\ UNCHANGED <<document, objects, allocated, cmd, seen, unreleased>>

-----------------------------------------------------------------------------
(* The page                                                                *)

\* A script of the page gives the element other files, or none.
PageSetsFiles(list) ==
    /\ list # files
    /\ pc # "idle" => /\ Cardinality(seen \cup {list}) <= MaxSeen
                      /\ Len(list) + Len(cmd.files) <= MaxFiles
    /\ files' = list
    /\ seen' = IF pc = "idle" THEN seen ELSE seen \cup {list}
    /\ UNCHANGED <<document, objects, allocated, pc, cmd, local, status, sent,
                   unreleased>>

\* The frame loads another document: the nodes and the remote objects of
\* the old one are gone.
Navigate ==
    /\ document < MaxNavigations
    /\ document' = document + 1
    /\ objects' = {}
    /\ unreleased' = {}
    /\ files' = <<>>
    /\ seen' = IF pc = "idle" THEN seen ELSE seen \cup {<<>>}
    /\ UNCHANGED <<allocated, pc, cmd, local, status, sent>>

-----------------------------------------------------------------------------

Init ==
    /\ document = 0
    /\ files = <<>>
    /\ objects = {}
    /\ allocated = 0
    /\ pc = "idle"
    /\ cmd = [op |-> "GetFrameByFunction", files |-> <<>>, append |-> FALSE]
    /\ local = NoLocals
    /\ status = "kOk"
    /\ seen = {<<>>}
    /\ sent = <<>>
    /\ unreleased = {}

Next ==
    \/ GetFrameByFunction
    \/ GetBackendNodeIdByElement
    \/ \E new_files \in BoundedSeq(Paths \cup {Relative}, MaxFiles),
          append \in BOOLEAN : SetFileInputFiles(new_files, append)
    \/ DescribeNode
    \/ ReleaseRemoteObject
    \/ ResolveNode
    \/ FilesLength
    \/ FileItem
    \/ GetFileInfo
    \/ SetFiles
    \/ \E list \in FileLists : PageSetsFiles(list)
    \/ Navigate

Spec == Init /\ [][Next]_vars

-----------------------------------------------------------------------------

TypeOK ==
    /\ document \in 0..MaxNavigations
    /\ files \in FileLists
    /\ objects \subseteq RemoteObject
    /\ allocated \in 0..MaxObjects
    /\ pc \in {"idle", "describe", "release", "resolve", "length", "item",
              "info", "set"}
    /\ cmd \in [op : Commands, append : BOOLEAN,
                files : BoundedSeq(Paths \cup {Relative}, MaxFiles)]
    /\ local \in [guard : RemoteObject \cup {None},
                  pending : StatusCode,
                  backend_node_id : 0..MaxNavigations \cup {None},
                  inner_remote_object_id : RemoteObject \cup {None},
                  number_of_files : 0..MaxFiles, i : 0..MaxFiles,
                  file_object_id : RemoteObject \cup {None},
                  file_list : FileLists]
    /\ status \in StatusCode
    /\ seen \subseteq FileLists
    /\ sent \in FileLists
    /\ unreleased \subseteq objects

\* The object Runtime.evaluate hands to GetBackendNodeIdFromFunction and
\* GetFrameIdFromFunction goes through ReleaseRemoteObject on every way
\* out of them, the failing ones included: the only such objects the
\* browser keeps are the one under the RemoteObjectReleaseGuard of the
\* command that is running, and those whose Runtime.releaseObject failed
\* ("Failed to release remote object" in the log).
GuardedObjectIsReleased ==
    \A object \in objects \ unreleased :
        object.by = "Runtime.evaluate" =>
            pc \in {"describe", "release"} /\ object = local.guard

\* SetFileInputFiles that returns kOk has set the new files, after the old
\* ones when it is given `append`.  The old files are read with the loop
\* of one `files.length` and then `files[i]` and DOM.getFileInfo for each
\* i, while the page may give the element other files: as many old files
\* are sent as one of the lists the element had during the command holds,
\* and the file sent at each place was at that place in one of them.  For
\* a page that leaves the element alone these are the files of the
\* element, in their order.
AppendKeepsOldFiles ==
    pc = "idle" /\ status = "kOk" /\ cmd.op = "SetFileInputFiles"
    => LET n == Len(sent) - Len(cmd.files)
           kept == SubSeq(sent, 1, n)
       IN  /\ n >= 0
           /\ sent = kept \o cmd.files
           /\ ~cmd.append => kept = <<>>
           /\ cmd.append =>
                  /\ \E list \in seen : Len(list) = n
                  /\ \A i \in 1..n :
                         \E list \in seen : i <= Len(list) /\ list[i] = kept[i]

=============================================================================
