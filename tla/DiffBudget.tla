----------------------------- MODULE DiffBudget -----------------------------
(***************************************************************************)
(* CompressDiff (review/diff.go): the diff the model is shown is made of   *)
(* the files of the pull request, one after the other, within a budget of  *)
(* bytes.  Of a file only its path and the lengths of its header and of    *)
(* its patch matter.  The final TrimSpace only shortens the text.          *)
(***************************************************************************)
EXTENDS Integers, Sequences

CONSTANTS
  Paths,         \* paths of changed files
  Limits,        \* maxBytes, 0 and less for the default
  DefaultLimit   \* the default limit, 60000 in the code

ASSUME LimitsAssumption == Limits \subseteq Int /\ DefaultLimit \in Nat \ {0}

\* The header has at least the characters of its frame.
Files == [path : Paths, header : Nat \ {0}, patch : Nat]

VARIABLES
  maxBytes,    \* parameter: the limit as it is configured
  files,       \* parameter: the files to be shown
  outFiles,    \* files dealt with: path, bytes of the patch shown, Truncated
  used,        \* length of the text so far
  omitted,     \* bytes left out so far
  truncated    \* whether something was left out

diffVars == <<maxBytes, files, outFiles, used, omitted, truncated>>

Budget == IF maxBytes <= 0 THEN DefaultLimit ELSE maxBytes

-----------------------------------------------------------------------------
File == files[Len(outFiles) + 1]

\* Mutant of Room: what was left before the header was written.
RoomBeforeHeader == Budget - used

\* What is left for the patch once the header is written.
Room == Budget - used - File.header

Emit(shown, cut) ==
  /\ Len(outFiles) < Len(files)
  /\ outFiles' = Append(outFiles, [path |-> File.path, shown |-> shown, truncated |-> cut])
  /\ UNCHANGED <<maxBytes, files>>

\* Mutants of HeaderFits: the header is not measured; a file is shown whole or
\* not at all.
SomeRoomLeft == Budget - used > 0

WholeFileFits == Room > 0 /\ File.patch <= Room

HeaderFits == Room > 0

\* Mutants of OmitFile: the file is not marked, and its header is not counted.
OmitFileUnmarked ==
  /\ Emit(0, FALSE) /\ ~HeaderFits
  /\ truncated' = TRUE
  /\ omitted' = omitted + File.header + File.patch
  /\ UNCHANGED used

OmitFilePatch ==
  /\ Emit(0, TRUE) /\ ~HeaderFits
  /\ truncated' = TRUE
  /\ omitted' = omitted + File.patch
  /\ UNCHANGED used

\* The text has no room for the header and anything more: the file is listed
\* without a line of it.
OmitFile ==
  /\ Emit(0, TRUE) /\ ~HeaderFits
  /\ truncated' = TRUE
  /\ omitted' = omitted + File.header + File.patch
  /\ UNCHANGED used

CutFile ==
  /\ Emit(Room, TRUE) /\ HeaderFits /\ File.patch > Room
  /\ used' = used + File.header + Room
  /\ truncated' = TRUE
  /\ omitted' = omitted + (File.patch - Room)

ShowFile ==
  /\ Emit(File.patch, FALSE) /\ HeaderFits /\ File.patch <= Room
  /\ used' = used + File.header + File.patch
  /\ UNCHANGED <<truncated, omitted>>

CompressFile == OmitFile \/ CutFile \/ ShowFile

DiffInit ==
  /\ maxBytes = 0
  /\ files = <<>> /\ outFiles = <<>>
  /\ used = 0 /\ omitted = 0 /\ truncated = FALSE

-----------------------------------------------------------------------------
(* Properties.                                                             *)

\* The text keeps to the budget, header and patch of the last file included.
WithinBudget == used <= Budget

\* Nothing is left out silently: a file that is not marked is shown to the last
\* byte of its patch, and the review is told of a truncation (which weighs in
\* its risk score) exactly if a file is marked and a byte left out.
CutIsTold ==
  /\ \A i \in DOMAIN outFiles :
       ~outFiles[i].truncated => outFiles[i].shown = files[i].patch
  /\ truncated <=> \E i \in DOMAIN outFiles : outFiles[i].truncated
  /\ truncated <=> omitted > 0

\* A file is cut only for want of room, even with hindsight: what the later,
\* smaller files were given would not have held its header and one more byte.
CutsOnlyWhenFull ==
  \A i \in DOMAIN outFiles :
    outFiles[i].truncated => used + files[i].header >= Budget

\* Bytes of the files dealt with up to the k-th.
BytesUpTo[k \in 0 .. Len(outFiles)] ==
  IF k = 0 THEN 0 ELSE BytesUpTo[k - 1] + files[k].header + files[k].patch

\* OmittedBytes and the text together account for every byte.
NothingLost == used + omitted = BytesUpTo[Len(outFiles)]
=============================================================================
