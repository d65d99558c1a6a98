----------------------------- MODULE Persistence -----------------------------
(***************************************************************************)
(* The files behind the state image: namespace persistence, and the parts  *)
(* of persist_locked and Coordinator::create that use it.                  *)
(*                                                                         *)
(* save writes a temporary file next to the image, flushes and closes it,  *)
(* and renames it over the image.  Every call on the file system may fail, *)
(* the process may end between any two of them, and nothing is forced to   *)
(* the medium, so that a loss of power may cut any file or undo a rename.  *)
(*                                                                         *)
(* A state is a value.  A file holds the first blocks of the image of a    *)
(* value: HeaderBlocks with magic, version, length and digest, BodyBlocks  *)
(* with the records.  CRC-32 and SHA-256 tell a damaged image from an      *)
(* intact one.  The state lock admits one save at a time.                  *)
(***************************************************************************)
EXTENDS Naturals, FiniteSets

CONSTANTS
  Values,        \* the coordinator states that may have to be saved
  Fresh,         \* the state of a coordinator that found no image
  Oversized,     \* states with more records than max_persisted_records
  Unloadable,    \* states that deserialize refuses: validate, or a bound of a reader
  HeaderBlocks, BodyBlocks,
  None, Unreadable, Down, Absent,
  Live,          \* the name of the image, config.state_path
  MaxSaves,      \* bound: saves of one process
  MaxStops,      \* bound: ends of the process and losses of power
  MaxDamages     \* bound: damages by storage

ASSUME ConstantsAssumption ==
  /\ Fresh \in Values
  /\ HeaderBlocks \in Nat \ {0} /\ BodyBlocks \in Nat \ {0}
  /\ MaxSaves \in Nat /\ MaxStops \in Nat /\ MaxDamages \in Nat
  /\ None \notin Values /\ Unreadable \notin Values /\ Down \notin Values
  /\ None # Unreadable /\ None # Down /\ Unreadable # Down
  /\ None \notin Unloadable
  /\ Live \notin 1 .. MaxSaves
  /\ Absent \notin [value : Values, written : 0 .. HeaderBlocks + BodyBlocks, damaged : BOOLEAN]

VARIABLES
  phase,     \* "down", "loading" (inside Coordinator::create) or "up"
  memory,    \* impl.state
  pc,        \* where the save in progress is, "idle" when there is none
  sequence,  \* the process-wide counter that names temporary files
  files,     \* the directory: name -> file or Absent
  answer,    \* what the last save returned: "none", "ok" or "failed"
  replaced,  \* history: the files that a rename replaced
  leaked,    \* history: temporary files nobody removed
  stops, losses, damages   \* history: what went wrong so far

vars == <<phase, memory, pc, sequence, files, answer, replaced, leaked, stops, losses, damages>>

Temporaries == 1 .. MaxSaves
Names == Temporaries \cup {Live}
Size == HeaderBlocks + BodyBlocks
File == [value : Values, written : 0 .. Size, damaged : BOOLEAN]

\* deserialize, as far as the bytes decide: header complete and undamaged, length as
\* recorded, digest as recorded.
deserialize(f) ==
  IF f = Absent THEN None
  ELSE IF f.written < HeaderBlocks \/ f.damaged \/ f.written # Size THEN Unreadable
  ELSE f.value

Init ==
  /\ phase = "down" /\ memory = Fresh /\ pc = "idle" /\ sequence = 0
  /\ files = [n \in Names |-> Absent]
  /\ answer = "none" /\ replaced = {} /\ leaked = {}
  /\ stops = 0 /\ losses = 0 /\ damages = 0

Faults == <<stops, losses, damages>>

-----------------------------------------------------------------------------
(***************************************************************************)
(* save, step by step.                                                     *)
(***************************************************************************)

\* A handler has changed the state and calls persist_locked.
Change(v) ==
  /\ phase = "up" /\ pc = "idle" /\ sequence < MaxSaves
  /\ memory' = v /\ pc' = "serialize" /\ answer' = "none"
  /\ UNCHANGED <<phase, sequence, files, replaced, leaked, Faults>>

\* The save ends here, with this answer.
Return(status) == pc' = "idle" /\ answer' = status

\* serialize, and the directory of the image: both may refuse before a file is touched.
Serialize ==
  /\ pc = "serialize"
  /\ \/ memory \notin Oversized /\ pc' = "open" /\ UNCHANGED answer
     \/ Return("failed")
  /\ UNCHANGED <<phase, memory, sequence, files, replaced, leaked, Faults>>

\* OpenTemporary with a mistake: the image itself is opened, and truncated.
OpenInPlace ==
  /\ pc = "open"
  /\ sequence' = sequence + 1
  /\ pc' = "write" /\ UNCHANGED answer
  /\ files' = [files EXCEPT ![sequence'] = [value |-> memory, written |-> 0, damaged |-> FALSE],
                            ![Live] = [value |-> memory, written |-> 0, damaged |-> FALSE]]
  /\ leaked' = leaked \ {sequence'}
  /\ UNCHANGED <<phase, memory, replaced, Faults>>

\* A new name, opened for writing and truncated.  A leftover of an earlier process
\* may have that name.
OpenTemporary ==
  /\ pc = "open"
  /\ sequence' = sequence + 1
  /\ \/ /\ pc' = "write" /\ UNCHANGED answer
        /\ files' = [files EXCEPT ![sequence'] = [value |-> memory, written |-> 0, damaged |-> FALSE]]
        /\ leaked' = leaked \ {sequence'}
     \/ Return("failed") /\ UNCHANGED <<files, leaked>>
  /\ UNCHANGED <<phase, memory, replaced, Faults>>

\* The stream hands the image to the system in pieces; the state of the stream after
\* the flush says whether all of it arrived.
Write ==
  /\ pc = "write"
  /\ \/ /\ files[sequence].written < Size
        /\ files' = [files EXCEPT ![sequence].written = @ + 1]
        /\ UNCHANGED pc
     \/ files[sequence].written = Size /\ pc' = "close" /\ UNCHANGED files
     \/ pc' = "remove" /\ UNCHANGED files
  /\ UNCHANGED <<phase, memory, sequence, answer, replaced, leaked, Faults>>

Close ==
  /\ pc = "close" /\ pc' \in {"rename", "remove"}
  /\ UNCHANGED <<phase, memory, sequence, files, answer, replaced, leaked, Faults>>

\* The temporary file takes the name of the image, or the system refuses.
Rename ==
  /\ pc = "rename"
  /\ \/ /\ files' = [files EXCEPT ![Live] = files[sequence], ![sequence] = Absent]
        /\ replaced' = replaced \cup {files[Live]}
        /\ pc' = "return"
     \/ pc' = "remove" /\ UNCHANGED <<files, replaced>>
  /\ UNCHANGED <<phase, memory, sequence, answer, leaked, Faults>>

\* Remove with a mistake: the failed save leaves its file behind.
RemoveNothing ==
  /\ pc = "remove"
  /\ Return("failed")
  /\ UNCHANGED <<phase, memory, sequence, files, replaced, leaked, Faults>>

\* A save that failed after opening its file removes it; an error of the removal is
\* ignored.
Remove ==
  /\ pc = "remove"
  /\ \/ files' = [files EXCEPT ![sequence] = Absent] /\ UNCHANGED leaked
     \/ leaked' = leaked \cup {sequence} /\ UNCHANGED files
  /\ Return("failed")
  /\ UNCHANGED <<phase, memory, sequence, replaced, Faults>>

Saved ==
  /\ pc = "return"
  /\ Return("ok")
  /\ UNCHANGED <<phase, memory, sequence, files, replaced, leaked, Faults>>

SaveStep ==
  Serialize \/ OpenTemporary \/ Write \/ Close \/ Rename \/ Remove \/ Saved

-----------------------------------------------------------------------------
(***************************************************************************)
(* The start of a process.                                                 *)
(***************************************************************************)

\* discard_temporary_images: a file that cannot be removed stays.  create returns the
\* error when the directory cannot be read.
DiscardTemporaryImages ==
  /\ phase = "down"
  /\ \E stays \in SUBSET Temporaries :
       /\ files' = [n \in Names |-> IF n = Live \/ n \in stays THEN files[n] ELSE Absent]
       /\ leaked' = leaked \cap stays
  /\ phase' = "loading"
  /\ UNCHANGED <<memory, pc, sequence, answer, replaced, Faults>>

\* Load with a mistake: an image that cannot be read counts as missing.
LoadAnything ==
  LET found == deserialize(files[Live])
  IN  /\ phase = "loading"
      /\ phase' = "up"
      /\ memory' = IF found \in {None, Unreadable} \cup Unloadable THEN Fresh ELSE found
      /\ UNCHANGED <<pc, sequence, files, answer, replaced, leaked, Faults>>

\* load: a missing image starts a fresh coordinator, one that is refused or cannot be
\* read ends the start.
Load ==
  LET found == deserialize(files[Live])
  IN  /\ phase = "loading"
      /\ \/ /\ found \notin {Unreadable} \cup Unloadable
            /\ phase' = "up"
            /\ memory' = IF found = None THEN Fresh ELSE found
         \/ /\ found # None
            /\ phase' = "down" /\ UNCHANGED memory
      /\ UNCHANGED <<pc, sequence, files, answer, replaced, leaked, Faults>>

-----------------------------------------------------------------------------
(***************************************************************************)
(* The environment.                                                        *)
(***************************************************************************)

\* The file a save in progress would leave behind.
Unfinished == IF pc \in {"write", "close", "rename", "remove"} THEN {sequence} ELSE {}

\* The process is gone; the next one counts its temporary files from the start.
ProcessEnds ==
  /\ stops < MaxStops /\ stops' = stops + 1
  /\ phase' = "down" /\ pc' = "idle" /\ sequence' = 0 /\ answer' = "none"
  /\ leaked' = leaked \cup Unfinished
  /\ UNCHANGED memory

Crash ==
  /\ phase # "down" /\ ProcessEnds
  /\ UNCHANGED <<files, replaced, losses, damages>>

\* What a file may look like after a loss of power.
Cut(f) ==
  IF f = Absent THEN {Absent} ELSE {[f EXCEPT !.written = w] : w \in 0 .. f.written}

PowerLoss ==
  /\ phase # "down" /\ ProcessEnds
  /\ losses' = losses + 1
  /\ \E f \in {files[Live]} \cup replaced : \E g \in Cut(f) : files' = [files EXCEPT ![Live] = g]
  /\ UNCHANGED <<replaced, damages>>

\* The bytes of the image change on the medium.
Damage ==
  /\ damages < MaxDamages /\ files[Live] # Absent
  /\ damages' = damages + 1
  /\ files' = [files EXCEPT ![Live].damaged = TRUE]
  /\ UNCHANGED <<phase, memory, pc, sequence, answer, replaced, leaked, stops, losses>>

-----------------------------------------------------------------------------
Next ==
  \/ \E v \in Values : Change(v)
  \/ SaveStep
  \/ DiscardTemporaryImages \/ Load
  \/ Crash \/ PowerLoss \/ Damage

Spec == Init /\ [][Next]_vars

-----------------------------------------------------------------------------
(***************************************************************************)
(* Properties.                                                             *)
(***************************************************************************)

\* Every variable holds a value of its type.
TypeOK ==
  /\ phase \in {"down", "loading", "up"} /\ memory \in Values
  /\ pc \in {"idle", "serialize", "open", "write", "close", "rename", "remove", "return"}
  /\ sequence \in 0 .. MaxSaves
  /\ files \in [Names -> File \cup {Absent}]
  /\ answer \in {"none", "ok", "failed"}
  /\ replaced \subseteq File \cup {Absent} /\ leaked \subseteq Temporaries
  /\ stops \in Nat /\ losses \in Nat /\ damages \in Nat

\* A half-written image never becomes authoritative (persistence.hpp): as long as the
\* machine keeps its power, the file under the name of the image is complete, wherever
\* a save fails and wherever the process ends.
ImageIsWhole == losses = 0 /\ files[Live] # Absent => files[Live].written = Size

\* Temporary files do not pile up: one that exists belongs to the save in progress, or
\* its removal failed, or the process ended while it was written and no start has
\* removed it yet.
TemporariesAccounted ==
  \A n \in Temporaries : files[n] # Absent => n \in leaked \cup Unfinished

\* The files implement the image that is replaced as a whole or not at all: success
\* means the new image is in place, failure that the old one is, and a start serves
\* exactly what was saved last, or refuses.
Atomic == INSTANCE AtomicImage WITH
  image <- deserialize(files[Live]),
  memory <- IF phase = "up" THEN memory ELSE Down,
  pending <- IF pc = "idle" THEN "no" ELSE IF pc = "return" THEN "done" ELSE "yes",
  answer <- answer,
  replaced <- {deserialize(f) : f \in replaced}

ImplementsAtomicImage == Atomic!Spec

=============================================================================
