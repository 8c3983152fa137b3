---------------------------- MODULE MCUploadMemo -----------------------------
(* A script in the directory and a data file in a subdirectory; the two    *)
(* contents are of one size, so only an mtime tells them apart.            *)
EXTENDS UploadMemo

CONSTANTS script, data,                 \* files
          old, new,                     \* contents
          task, resolver                \* uploaders

MCFile      == {script, data}
MCBelow     == {data}
MCRewritten == {script}
MCContent   == {old, new}
MCSize      == [c \in MCContent |-> 1]
OneTask     == {task}
==============================================================================
