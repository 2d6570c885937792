------------------------------ MODULE FileEvents ------------------------------
(* The events of internal/watcher (types.go). Sizes, time stamps and hashes *)
(* are left out: none of the properties depends on them.                    *)
EXTENDS Integers

CONSTANT Path   \* files, relative to FILES_PATH

EventType == {"add", "change", "delete", "rename"}
NoEvent   == "none"

\* The types that tell a reader that the file is there. A file that is moved
\* in is added; a rename event names the path the file has left.
Present == {"add", "change"}
=============================================================================
