-------------------------- MODULE PersistenceProofs --------------------------
(***************************************************************************)
(* For any set of states, any number of saves, stops, losses of power and  *)
(* damages: the files implement module AtomicImage, the image is whole as  *)
(* long as the machine keeps its power, and no temporary file is left that *)
(* nobody answers for.                                                     *)
(***************************************************************************)
EXTENDS Persistence, TLAPS

\* What the file under construction is: the image of the state in memory, in a
\* temporary file of its own, complete once it may be renamed.
SaveInv ==
  /\ phase # "up" => pc = "idle"
  /\ pc \in {"serialize", "open"} => sequence < MaxSaves
  /\ pc \in {"write", "close", "rename", "remove"} =>
       /\ sequence \in Temporaries
       /\ files[sequence] \in File
       /\ files[sequence].value = memory /\ files[sequence].damaged = FALSE
  /\ pc \in {"close", "rename"} => files[sequence].written = Size

PersistenceInv == TypeOK /\ SaveInv /\ ImageIsWhole

-----------------------------------------------------------------------------
\* The image has a name of its own, and no file at all is not a file.
LEMMA NamesApart == Live \notin Temporaries /\ Absent \notin File /\ Size \in Nat \ {0}
  BY ConstantsAssumption DEF Temporaries, File, Size

\* A complete undamaged file reads as the state it was written from.
LEMMA WholeReads ==
  ASSUME NEW f \in File, f.written = Size, f.damaged = FALSE
  PROVE  deserialize(f) = f.value
  BY NamesApart, ConstantsAssumption DEF deserialize, File, Size

\* A file is never mistaken for a missing one.
LEMMA FileIsNotNone == ASSUME NEW f \in File PROVE deserialize(f) # None
  BY NamesApart, ConstantsAssumption DEF deserialize, File

\* A damaged file is refused.
LEMMA DamagedUnreadable ==
  ASSUME NEW f \in File, f.damaged = TRUE
  PROVE  deserialize(f) = Unreadable
  BY NamesApart DEF deserialize, File

\* What power loss leaves of a file reads as before or is refused.
LEMMA CutReads ==
  ASSUME NEW f \in File \cup {Absent}, NEW g \in Cut(f)
  PROVE  g \in File \cup {Absent} /\ deserialize(g) \in {deserialize(f), Unreadable}
<1>1. CASE f = Absent
  BY <1>1 DEF Cut
<1>2. CASE f \in File /\ f # Absent
  <2>1. PICK w \in 0 .. f.written : g = [f EXCEPT !.written = w]
    BY <1>2 DEF Cut
  <2>2. f.written \in 0 .. Size /\ Size \in Nat
    BY <1>2, NamesApart DEF File
  <2>3. g \in File /\ g.written = w /\ g.damaged = f.damaged /\ g.value = f.value
    BY <1>2, <2>1, <2>2 DEF File
  <2>4. g # Absent
    BY <2>3, NamesApart
  <2>5. CASE w = f.written
    BY <1>2, <2>3, <2>4, <2>5 DEF deserialize
  <2>6. CASE w # f.written
    BY <1>2, <2>2, <2>3, <2>4, <2>6 DEF deserialize
  <2> QED BY <2>3, <2>5, <2>6
<1> QED BY <1>1, <1>2

-----------------------------------------------------------------------------
\* Before the first start there is no file at all.
LEMMA InitPersistence == Init => PersistenceInv
  BY NamesApart, ConstantsAssumption
     DEF Init, PersistenceInv, TypeOK, SaveInv, ImageIsWhole, File, Names, Temporaries

\* Every step of save, of the start and of the environment keeps the invariant: only
\* Rename and PowerLoss put a file under the name of the image, and what Rename puts
\* there is complete.
LEMMA NextPersistence == PersistenceInv /\ [Next]_vars => PersistenceInv'
<1> SUFFICES ASSUME PersistenceInv, [Next]_vars PROVE PersistenceInv'
  OBVIOUS
<1>0. Live \notin Temporaries /\ Absent \notin File /\ Size \in Nat \ {0}
      /\ Live \in Names /\ Temporaries \subseteq Names /\ Fresh \in Values
      /\ Temporaries = 1 .. MaxSaves /\ MaxSaves \in Nat /\ Size \in 0 .. Size
  BY NamesApart, ConstantsAssumption DEF Names, Temporaries
<1>1. ASSUME NEW v \in Values, Change(v) PROVE PersistenceInv'
  BY <1>0, <1>1 DEF Change, PersistenceInv, TypeOK, SaveInv, ImageIsWhole, Faults
<1>2. CASE Serialize
  BY <1>0, <1>2 DEF Serialize, Return, PersistenceInv, TypeOK, SaveInv, ImageIsWhole, Faults
<1>3. CASE OpenTemporary
  <2>1. sequence' \in Temporaries /\ sequence' # Live
    BY <1>0, <1>3 DEF OpenTemporary, PersistenceInv, TypeOK, SaveInv
  <2>2. CASE pc' = "write"
    <3> DEFINE f == [value |-> memory, written |-> 0, damaged |-> FALSE]
    <3>1. f \in File
      BY <1>0 DEF File, PersistenceInv, TypeOK
    <3>2. files' = [files EXCEPT ![sequence'] = f] /\ leaked' = leaked \ {sequence'}
      BY <1>3, <2>2 DEF OpenTemporary, Return
    <3>3. files' \in [Names -> File \cup {Absent}] /\ files'[sequence'] = f /\ files'[Live] = files[Live]
      BY <1>0, <2>1, <3>1, <3>2 DEF PersistenceInv, TypeOK
    <3>4. TypeOK'
      <4>1. answer' = answer /\ UNCHANGED <<phase, memory, replaced, stops, losses, damages>>
        BY <1>3, <2>2 DEF OpenTemporary, Return, Faults
      <4>2. sequence' \in 0 .. MaxSaves /\ leaked' \subseteq Temporaries
        BY <1>0, <2>1, <3>2 DEF PersistenceInv, TypeOK
      <4>3. files' \in [Names -> File \cup {Absent}]
        BY <3>3
      <4> QED BY <2>2, <4>1, <4>2, <4>3 DEF PersistenceInv, TypeOK
    <3>5. SaveInv'
      BY <1>3, <2>1, <2>2, <3>1, <3>3 DEF OpenTemporary, PersistenceInv, SaveInv
    <3> QED BY <1>3, <3>3, <3>4, <3>5 DEF OpenTemporary, PersistenceInv, ImageIsWhole, Faults
  <2>3. CASE pc' # "write"
    <3>1. /\ pc' = "idle" /\ answer' = "failed"
          /\ UNCHANGED <<phase, memory, files, replaced, leaked, stops, losses, damages>>
      BY <1>3, <2>3 DEF OpenTemporary, Return, Faults
    <3> QED BY <1>0, <2>1, <3>1 DEF PersistenceInv, TypeOK, SaveInv, ImageIsWhole
  <2> QED BY <2>2, <2>3
<1>4. CASE Write
  <2>1. sequence \in Temporaries /\ files[sequence] \in File /\ sequence # Live
    BY <1>0, <1>4 DEF Write, PersistenceInv, SaveInv
  <2>2. CASE files' = files
    BY <1>0, <1>4, <2>1, <2>2 DEF Write, PersistenceInv, TypeOK, SaveInv, ImageIsWhole, Faults
  <2>3. CASE files' # files
    <3> DEFINE f == [files[sequence] EXCEPT !.written = @ + 1]
    <3>1. files[sequence].written < Size /\ files' = [files EXCEPT ![sequence] = f] /\ pc' = pc
      BY <1>4, <2>3 DEF Write
    <3>2. f \in File /\ f.value = files[sequence].value /\ f.damaged = files[sequence].damaged
      BY <1>0, <2>1, <3>1 DEF File
    <3>3. files' \in [Names -> File \cup {Absent}] /\ files'[sequence] = f /\ files'[Live] = files[Live]
      BY <1>0, <2>1, <3>1, <3>2 DEF PersistenceInv, TypeOK
    <3> QED
      BY <1>0, <1>4, <2>1, <3>1, <3>2, <3>3
         DEF Write, PersistenceInv, TypeOK, SaveInv, ImageIsWhole, Faults
  <2> QED BY <2>2, <2>3
<1>5. CASE Close
  BY <1>0, <1>5 DEF Close, PersistenceInv, TypeOK, SaveInv, ImageIsWhole, Faults
<1>6. CASE Rename
  <2>1. sequence \in Temporaries /\ files[sequence] \in File /\ sequence # Live
        /\ files[sequence].written = Size
    BY <1>0, <1>6 DEF Rename, PersistenceInv, SaveInv
  <2>2. CASE pc' = "remove"
    BY <1>0, <1>6, <2>1, <2>2 DEF Rename, PersistenceInv, TypeOK, SaveInv, ImageIsWhole, Faults
  <2>3. CASE pc' # "remove"
    <3>1. files' = [files EXCEPT ![Live] = files[sequence], ![sequence] = Absent] /\ pc' = "return"
          /\ replaced' = replaced \cup {files[Live]}
      BY <1>6, <2>3 DEF Rename
    <3>2. files' \in [Names -> File \cup {Absent}] /\ files'[Live] = files[sequence]
      BY <1>0, <2>1, <3>1 DEF PersistenceInv, TypeOK
    <3>3. replaced' \subseteq File \cup {Absent}
      BY <1>0, <3>1 DEF PersistenceInv, TypeOK
    <3> QED
      BY <1>0, <1>6, <2>1, <3>1, <3>2, <3>3
         DEF Rename, PersistenceInv, TypeOK, SaveInv, ImageIsWhole, Faults
  <2> QED BY <2>2, <2>3
<1>7. CASE Remove
  <2>1. sequence \in Temporaries /\ sequence # Live
    BY <1>0, <1>7 DEF Remove, PersistenceInv, SaveInv
  <2>2. files' \in [Names -> File \cup {Absent}] /\ files'[Live] = files[Live] /\ leaked' \subseteq Temporaries
    BY <1>0, <1>7, <2>1 DEF Remove, PersistenceInv, TypeOK
  <2> QED
    BY <1>0, <1>7, <2>2 DEF Remove, Return, PersistenceInv, TypeOK, SaveInv, ImageIsWhole, Faults
<1>8. CASE Saved
  BY <1>0, <1>8 DEF Saved, Return, PersistenceInv, TypeOK, SaveInv, ImageIsWhole, Faults
<1>9. CASE DiscardTemporaryImages
  <2>1. files' \in [Names -> File \cup {Absent}] /\ files'[Live] = files[Live] /\ leaked' \subseteq Temporaries
    BY <1>0, <1>9 DEF DiscardTemporaryImages, PersistenceInv, TypeOK
  <2> QED
    BY <1>0, <1>9, <2>1 DEF DiscardTemporaryImages, PersistenceInv, TypeOK, SaveInv, ImageIsWhole, Faults
<1>10. CASE Load
  <2>1. memory' \in Values
    <3>1. files[Live] \in File \cup {Absent}
      BY <1>0 DEF PersistenceInv, TypeOK
    <3>2. deserialize(files[Live]) \in Values \cup {None, Unreadable}
      BY <3>1 DEF deserialize, File
    <3> QED BY <1>0, <1>10, <3>2 DEF Load, PersistenceInv, TypeOK
  <2>2. phase' \in {"up", "down"} /\ UNCHANGED <<pc, sequence, files, answer, replaced, leaked, Faults>>
    BY <1>10 DEF Load
  <2>3. pc = "idle"
    BY <1>10 DEF Load, PersistenceInv, SaveInv
  <2> QED BY <1>0, <2>1, <2>2, <2>3 DEF PersistenceInv, TypeOK, SaveInv, ImageIsWhole, Faults
<1>11. ASSUME ProcessEnds PROVE SaveInv' /\ leaked' \subseteq Temporaries
  BY <1>0, <1>11 DEF ProcessEnds, Unfinished, PersistenceInv, TypeOK, SaveInv
<1>12. CASE Crash
  BY <1>0, <1>11, <1>12 DEF Crash, ProcessEnds, PersistenceInv, TypeOK, ImageIsWhole
<1>13. CASE PowerLoss
  <2>1. PICK f \in {files[Live]} \cup replaced : \E g \in Cut(f) : files' = [files EXCEPT ![Live] = g]
    BY <1>13 DEF PowerLoss
  <2>2. PICK g \in Cut(f) : files' = [files EXCEPT ![Live] = g]
    BY <2>1
  <2>3. f \in File \cup {Absent}
    BY <1>0 DEF PersistenceInv, TypeOK
  <2>4. g \in File \cup {Absent}
    BY <2>3, CutReads
  <2>5. files' \in [Names -> File \cup {Absent}]
    BY <1>0, <2>2, <2>4 DEF PersistenceInv, TypeOK
  <2>6. losses' # 0 /\ losses' \in Nat
    BY <1>13 DEF PowerLoss, PersistenceInv, TypeOK
  <2> QED
    BY <1>0, <1>11, <1>13, <2>5, <2>6 DEF PowerLoss, ProcessEnds, PersistenceInv, TypeOK, ImageIsWhole
<1>14. CASE Damage
  <2> DEFINE f == [files[Live] EXCEPT !.damaged = TRUE]
  <2>1. files[Live] \in File /\ files' = [files EXCEPT ![Live] = f]
    BY <1>0, <1>14 DEF Damage, PersistenceInv, TypeOK
  <2>2. f \in File /\ f.written = files[Live].written
    BY <2>1 DEF File
  <2>3. files' \in [Names -> File \cup {Absent}] /\ files'[Live] = f
        /\ \A n \in Temporaries : files'[n] = files[n]
    BY <1>0, <2>1, <2>2 DEF PersistenceInv, TypeOK
  <2>4. SaveInv'
    BY <1>0, <1>14, <2>3 DEF Damage, PersistenceInv, SaveInv
  <2>5. TypeOK'
    BY <1>0, <1>14, <2>3 DEF Damage, PersistenceInv, TypeOK
  <2>6. ImageIsWhole'
    BY <1>0, <1>14, <2>1, <2>2, <2>3 DEF Damage, PersistenceInv, ImageIsWhole
  <2> QED BY <2>4, <2>5, <2>6 DEF PersistenceInv
<1>15. CASE UNCHANGED vars
  BY <1>15 DEF vars, PersistenceInv, TypeOK, SaveInv, ImageIsWhole, Temporaries
<1> QED
  BY <1>1, <1>2, <1>3, <1>4, <1>5, <1>6, <1>7, <1>8, <1>9, <1>10, <1>12, <1>13, <1>14, <1>15
     DEF Next, SaveStep

-----------------------------------------------------------------------------
\* The inductive invariant holds in every behaviour.
LEMMA PersistenceInvariance == Spec => []PersistenceInv
<1>1. Init => PersistenceInv
  BY InitPersistence
<1>2. PersistenceInv /\ [Next]_vars => PersistenceInv'
  BY NextPersistence
<1> QED BY <1>1, <1>2, PTL DEF Spec

\* A half-written image never becomes authoritative, whatever save fails at and
\* wherever the process ends, for any sizes and any number of saves.
THEOREM HalfWrittenNeverAuthoritative == Spec => []ImageIsWhole
<1>1. PersistenceInv => ImageIsWhole
  BY DEF PersistenceInv
<1> QED BY <1>1, PersistenceInvariance, PTL

-----------------------------------------------------------------------------
\* Before the first start there is no temporary file either.
LEMMA InitAccounted == Init => TemporariesAccounted
  BY NamesApart DEF Init, TemporariesAccounted, Names

\* No step leaves a temporary file that nobody answers for: OpenTemporary makes one that
\* is the save's own, Rename and Remove take it away or record that it stays, the end of
\* the process hands the unfinished one over, and a start keeps only what it could not
\* remove.
LEMMA NextAccounted ==
  PersistenceInv /\ TemporariesAccounted /\ [Next]_vars => TemporariesAccounted'
<1> SUFFICES ASSUME PersistenceInv, TemporariesAccounted, [Next]_vars
             PROVE  TemporariesAccounted'
  OBVIOUS
<1>0. Live \notin Temporaries /\ Live \in Names /\ Temporaries \subseteq Names
      /\ files \in [Names -> File \cup {Absent}]
  BY NamesApart DEF Names, PersistenceInv, TypeOK
<1>1. ASSUME UNCHANGED <<files, sequence, leaked>>, Unfinished \subseteq Unfinished'
      PROVE  TemporariesAccounted'
  BY <1>1 DEF TemporariesAccounted, Temporaries
<1>2. ASSUME NEW v \in Values, Change(v) PROVE TemporariesAccounted'
  BY <1>1, <1>2 DEF Change, Unfinished
<1>3. CASE Serialize
  BY <1>1, <1>3 DEF Serialize, Return, Unfinished
<1>4. CASE OpenTemporary
  <2>1. \A n \in Temporaries : n # sequence' => files'[n] = files[n]
    BY <1>0, <1>4 DEF OpenTemporary
  <2>2. Unfinished = {}
    BY <1>4 DEF OpenTemporary, Unfinished
  <2>3. CASE pc' = "write"
    <3>1. leaked' = leaked \ {sequence'} /\ Unfinished' = {sequence'}
      BY <1>4, <2>3 DEF OpenTemporary, Return, Unfinished
    <3> QED BY <2>1, <2>2, <3>1 DEF TemporariesAccounted, Temporaries
  <2>4. CASE pc' # "write"
    BY <1>4, <2>2, <2>4 DEF OpenTemporary, TemporariesAccounted, Temporaries
  <2> QED BY <2>3, <2>4
<1>5. CASE Write
  <2>1. Unfinished = {sequence} /\ Unfinished' = {sequence} /\ leaked' = leaked
    BY <1>5 DEF Write, Unfinished
  <2>2. \A n \in Temporaries : n # sequence => files'[n] = files[n]
    BY <1>0, <1>5 DEF Write
  <2> QED BY <2>1, <2>2 DEF TemporariesAccounted, Temporaries
<1>6. CASE Close
  BY <1>1, <1>6 DEF Close, Unfinished
<1>7. CASE Rename
  <2>1. sequence \in Temporaries /\ sequence \in Names
    BY <1>0, <1>7 DEF Rename, PersistenceInv, SaveInv
  <2>2. CASE pc' = "remove"
    BY <1>1, <1>7, <2>2 DEF Rename, Unfinished
  <2>3. CASE pc' # "remove"
    <3>1. \A n \in Temporaries : files'[n] = IF n = sequence THEN Absent ELSE files[n]
      BY <1>0, <1>7, <2>1, <2>3 DEF Rename
    <3>2. Unfinished = {sequence} /\ leaked' = leaked
      BY <1>7 DEF Rename, Unfinished
    <3> QED BY <3>1, <3>2 DEF TemporariesAccounted, Temporaries
  <2> QED BY <2>2, <2>3
<1>8. CASE Remove
  <2>1. Unfinished = {sequence}
    BY <1>8 DEF Remove, Unfinished
  <2>2. CASE files' = [files EXCEPT ![sequence] = Absent] /\ UNCHANGED leaked
    <3>1. \A n \in Temporaries : files'[n] = IF n = sequence THEN Absent ELSE files[n]
      BY <1>0, <2>2
    <3> QED BY <2>1, <2>2, <3>1 DEF TemporariesAccounted, Temporaries
  <2>3. CASE leaked' = leaked \cup {sequence} /\ UNCHANGED files
    BY <2>1, <2>3 DEF TemporariesAccounted, Temporaries
  <2> QED BY <1>8, <2>2, <2>3 DEF Remove
<1>9. CASE Saved
  BY <1>1, <1>9 DEF Saved, Return, Unfinished
<1>10. CASE DiscardTemporaryImages
  <2>1. PICK stays \in SUBSET Temporaries :
          /\ files' = [n \in Names |-> IF n = Live \/ n \in stays THEN files[n] ELSE Absent]
          /\ leaked' = leaked \cap stays
    BY <1>10 DEF DiscardTemporaryImages
  <2>2. Unfinished = {}
    BY <1>10 DEF DiscardTemporaryImages, PersistenceInv, SaveInv, Unfinished
  <2>3. \A n \in Temporaries : files'[n] = IF n \in stays THEN files[n] ELSE Absent
    BY <1>0, <2>1
  <2> QED BY <2>1, <2>2, <2>3 DEF TemporariesAccounted, Temporaries
<1>11. CASE Load
  BY <1>1, <1>11 DEF Load, Unfinished
<1>12. ASSUME ProcessEnds, \A n \in Temporaries : files'[n] = files[n]
       PROVE  TemporariesAccounted'
  BY <1>12 DEF ProcessEnds, TemporariesAccounted, Temporaries
<1>13. CASE Crash
  BY <1>12, <1>13 DEF Crash
<1>14. CASE PowerLoss
  <2>1. \A n \in Temporaries : files'[n] = files[n]
    BY <1>0, <1>14 DEF PowerLoss
  <2> QED BY <1>12, <1>14, <2>1 DEF PowerLoss
<1>15. CASE Damage
  <2>1. \A n \in Temporaries : files'[n] = files[n]
    BY <1>0, <1>15 DEF Damage
  <2> QED BY <1>15, <2>1 DEF Damage, Unfinished, TemporariesAccounted, Temporaries
<1>16. CASE UNCHANGED vars
  BY <1>1, <1>16 DEF vars, Unfinished
<1> QED
  BY <1>2, <1>3, <1>4, <1>5, <1>6, <1>7, <1>8, <1>9, <1>10, <1>11, <1>13, <1>14, <1>15, <1>16
     DEF Next, SaveStep

\* Temporary files do not pile up, for any number of saves, failures and stops: every
\* one that exists is of the save in progress, or its removal failed, or the process
\* ended while it was written.
THEOREM TemporariesDoNotPileUp == Spec => []TemporariesAccounted
<1>1. Init => TemporariesAccounted
  BY InitAccounted
<1>2. PersistenceInv /\ TemporariesAccounted /\ [Next]_vars => TemporariesAccounted'
  BY NextAccounted
<1> QED BY <1>1, <1>2, PersistenceInvariance, PTL DEF Spec

-----------------------------------------------------------------------------
\* The directory is empty before the first start: there is no image.
LEMMA AtomicInit == Init => Atomic!Init
<1> SUFFICES ASSUME Init PROVE Atomic!Init
  OBVIOUS
<1>1. files[Live] = Absent
  BY DEF Init, Names
<1> QED BY <1>1 DEF Init, Atomic!Init, deserialize

\* What the refinement mapping sees of a step that leaves image and history alone.
LEMMA SameImage ==
  ASSUME UNCHANGED <<phase, memory, answer, replaced>>, files'[Live] = files[Live],
         pc = "idle" <=> pc' = "idle", pc = "return" <=> pc' = "return"
  PROVE  UNCHANGED Atomic!vars
  BY DEF Atomic!vars, deserialize

\* Refusals leave the image as it was.
LEMMA RefusalRefines ==
  ASSUME UNCHANGED <<phase, memory, replaced>>, files'[Live] = files[Live],
         pc \notin {"idle", "return"}, Return("failed")
  PROVE  Atomic!Refuse
  BY DEF Atomic!Refuse, deserialize, Return

\* Every step of the files is a step of AtomicImage or changes nothing it can see.
LEMMA AtomicStep == PersistenceInv /\ [Next]_vars => [Atomic!Next]_(Atomic!vars)
<1> SUFFICES ASSUME PersistenceInv, [Next]_vars PROVE [Atomic!Next]_(Atomic!vars)
  OBVIOUS
<1>0. Live \notin Temporaries /\ Live \in Names /\ Temporaries \subseteq Names
      /\ files \in [Names -> File \cup {Absent}] /\ files[Live] \in File \cup {Absent}
  BY NamesApart DEF Names, PersistenceInv, TypeOK
<1>1. ASSUME NEW v \in Values, Change(v) PROVE Atomic!Change(v)
  <2>1. v # Down /\ memory # Down
    BY ConstantsAssumption DEF PersistenceInv, TypeOK
  <2> QED BY <1>1, <2>1 DEF Change, Atomic!Change, deserialize
<1>2. CASE Serialize
  <2>1. CASE pc' = "open"
    BY <1>2, <2>1, SameImage DEF Serialize, Return
  <2>2. CASE pc' # "open"
    BY <1>2, <2>2, RefusalRefines DEF Serialize, Atomic!Next
  <2> QED BY <2>1, <2>2
<1>3. CASE OpenTemporary
  <2>1. sequence' # Live /\ sequence' \in Names
    BY <1>0, <1>3, ConstantsAssumption
       DEF OpenTemporary, PersistenceInv, TypeOK, SaveInv, Names, Temporaries
  <2>2. files'[Live] = files[Live]
    BY <1>0, <1>3, <2>1 DEF OpenTemporary
  <2>3. CASE pc' = "write"
    BY <1>3, <2>2, <2>3, SameImage DEF OpenTemporary, Return
  <2>4. CASE pc' # "write"
    BY <1>3, <2>2, <2>4, RefusalRefines DEF OpenTemporary, Atomic!Next
  <2> QED BY <2>3, <2>4
<1>4. CASE Write
  <2>1. sequence # Live
    BY <1>0, <1>4 DEF Write, PersistenceInv, SaveInv
  <2>2. files'[Live] = files[Live]
    BY <1>0, <1>4, <2>1 DEF Write
  <2> QED BY <1>4, <2>2, SameImage DEF Write
<1>5. CASE Close
  BY <1>5, SameImage DEF Close
<1>6. CASE Rename
  <2>1. sequence # Live /\ sequence \in Names /\ files[sequence] \in File
        /\ deserialize(files[sequence]) = memory
    BY <1>0, <1>6, WholeReads DEF Rename, PersistenceInv, SaveInv
  <2>2. CASE pc' = "remove"
    BY <1>6, <2>2, SameImage DEF Rename
  <2>3. CASE pc' # "remove"
    <3>1. files'[Live] = files[sequence]
      BY <1>0, <1>6, <2>1, <2>3 DEF Rename
    <3>2. deserialize(files'[Live]) = memory
      BY <2>1, <3>1
    <3>3. replaced' = replaced \cup {files[Live]} /\ pc = "rename" /\ pc' = "return"
          /\ UNCHANGED <<phase, memory, answer>>
      BY <1>6, <2>3 DEF Rename
    <3>4. {deserialize(f) : f \in replaced'}
            = {deserialize(f) : f \in replaced} \cup {deserialize(files[Live])}
      BY <3>3
    <3>5. phase = "up"
      BY <3>3 DEF PersistenceInv, SaveInv
    <3>6. Atomic!Replace
      BY <3>2, <3>3, <3>4, <3>5 DEF Atomic!Replace
    <3> QED BY <3>6 DEF Atomic!Next
  <2> QED BY <2>2, <2>3
<1>7. CASE Remove
  <2>1. sequence # Live
    BY <1>0, <1>7 DEF Remove, PersistenceInv, SaveInv
  <2>2. files'[Live] = files[Live]
    BY <1>0, <1>7, <2>1 DEF Remove
  <2> QED BY <1>7, <2>2, RefusalRefines DEF Remove, Atomic!Next
<1>8. CASE Saved
  <2>1. Atomic!Accept
    BY <1>8 DEF Saved, Return, Atomic!Accept, deserialize
  <2> QED BY <2>1 DEF Atomic!Next
<1>9. CASE DiscardTemporaryImages
  <2>1. files'[Live] = files[Live]
    BY <1>0, <1>9 DEF DiscardTemporaryImages
  <2> QED BY <1>9, <2>1 DEF DiscardTemporaryImages, Atomic!vars, deserialize
<1>10. CASE Load
  <2>1. CASE phase' = "up"
    <3>1. Atomic!Start
      BY <1>10, <2>1 DEF Load, Atomic!Start
    <3> QED BY <3>1 DEF Atomic!Next
  <2>2. CASE phase' # "up"
    BY <1>10, <2>2 DEF Load, Atomic!vars
  <2> QED BY <2>1, <2>2
<1>11. CASE Crash
  <2>1. Atomic!Stop
    BY <1>11 DEF Crash, ProcessEnds, Atomic!Stop, deserialize
  <2> QED BY <2>1 DEF Atomic!Next
<1>12. CASE PowerLoss
  <2>1. PICK f \in {files[Live]} \cup replaced : \E g \in Cut(f) : files' = [files EXCEPT ![Live] = g]
    BY <1>12 DEF PowerLoss
  <2>2. PICK g \in Cut(f) : files' = [files EXCEPT ![Live] = g]
    BY <2>1
  <2>3. f \in File \cup {Absent}
    BY <1>0 DEF PersistenceInv, TypeOK
  <2>4. deserialize(files'[Live]) \in {deserialize(f), Unreadable}
    BY <1>0, <2>2, <2>3, CutReads
  <2>5. deserialize(files'[Live]) \in
          {deserialize(files[Live]), Unreadable} \cup {deserialize(h) : h \in replaced}
    BY <2>1, <2>4
  <2>6. phase' = "down" /\ pc' = "idle" /\ answer' = "none" /\ replaced' = replaced
    BY <1>12 DEF PowerLoss, ProcessEnds
  <2>7. Atomic!PowerLoss
    BY <2>5, <2>6 DEF Atomic!PowerLoss
  <2> QED BY <2>7 DEF Atomic!Next
<1>13. CASE Damage
  <2> DEFINE f == [files[Live] EXCEPT !.damaged = TRUE]
  <2>1. files[Live] \in File /\ files' = [files EXCEPT ![Live] = f]
    BY <1>0, <1>13 DEF Damage
  <2>2. f \in File /\ f.damaged = TRUE /\ files'[Live] = f
    BY <1>0, <2>1 DEF File
  <2>3. deserialize(files'[Live]) = Unreadable /\ deserialize(files[Live]) # None
    BY <2>1, <2>2, DamagedUnreadable, FileIsNotNone
  <2>4. Atomic!Damage
    BY <1>13, <2>3 DEF Damage, Atomic!Damage
  <2> QED BY <2>4 DEF Atomic!Next
<1>14. CASE UNCHANGED vars
  BY <1>14 DEF vars, Atomic!vars, deserialize
<1> QED
  BY <1>1, <1>2, <1>3, <1>4, <1>5, <1>6, <1>7, <1>8, <1>9, <1>10, <1>11, <1>12, <1>13, <1>14
     DEF Next, SaveStep, Atomic!Next

\* The protocol of temporary files, with its failures, stops, losses of power and
\* damages, implements the image that is replaced as a whole or not at all, which the
\* coordinator relies on.
THEOREM FilesImplementAtomicImage == Spec => ImplementsAtomicImage
<1>1. Init => Atomic!Init
  BY AtomicInit
<1>2. PersistenceInv /\ [Next]_vars => [Atomic!Next]_(Atomic!vars)
  BY AtomicStep
<1>3. Spec => Atomic!Spec
  BY <1>1, <1>2, PersistenceInvariance, PTL DEF Spec, Atomic!Spec
<1> QED BY <1>3 DEF ImplementsAtomicImage
=============================================================================
