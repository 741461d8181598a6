-------------------------- MODULE QuarantineProofs --------------------------
(***************************************************************************)
(* Proofs about Quarantine, for any number of scans, commands and files:   *)
(* the right content is kept, it is locked before the original goes, and   *)
(* nothing is lost.                                                        *)
(***************************************************************************)
EXTENDS Quarantine, FiniteSetTheorems, TLAPS

\* Initially there is nothing in quarantine.
LEMMA InitIInv == Init => IInv
  BY NamesAssumption
  DEF Init, IInv, TypeOK, CopyInv, StageInv, RightContent, Inodes, Modes, Content, Short

\* The content of a file that has a name or is open is one a user made.
LEMMA ContentType ==
  ASSUME IInv, NEW i \in Inodes,
         i \in Jobs => copied[i] # None
  PROVE  Content(i) \in Contents
  BY DEF IInv, TypeOK, Content, Inodes

\* A step that makes no copy leaves every content as it is.
LEMMA ContentKept ==
  ASSUME UNCHANGED copied, NEW i
  PROVE  Content(i)' = Content(i)
  BY DEF Content

\* Users of the path.
LEMMA UserIInv == ASSUME IInv, User PROVE IInv'
  <1> USE NamesAssumption DEF Inodes, Short
  <1>1. ASSUME NEW c \in Contents, UserCreates(c) PROVE IInv'
    BY <1>1, ContentKept DEF IInv, UserCreates, TypeOK, CopyInv, StageInv, RightContent, jobVars,
         commandVars, Content
  <1>2. CASE UserUnlinks
    <2>1. Content(path) \in Contents
      BY <1>2, ContentType DEF UserUnlinks, IInv, TypeOK, CopyInv
    <2> QED
      BY <1>2, <2>1 DEF IInv, UserUnlinks, TypeOK, CopyInv, StageInv, RightContent, jobVars,
           commandVars, Content
  <1>3. CASE UserRenamesAway
    BY <1>3 DEF IInv, UserRenamesAway, TypeOK, CopyInv, StageInv, RightContent, jobVars,
         commandVars, Content
  <1> QED BY <1>1, <1>2, <1>3 DEF User

\* The steps of a scan.  A copy is made before anything can name it.
LEMMA JobIInv ==
  ASSUME IInv, NEW j \in Jobs, Open(j) \/ quarantine_file(j)
  PROVE  IInv'
  <1> USE NamesAssumption DEF Inodes
  <1> USE DEF IInv, TypeOK, CopyInv, StageInv, RightContent, jobVars, commandVars,
              fileVars, Content, Goto, JobKeeps, Done, Modes, Short, Discard
  <1>1. CASE Open(j)
    BY <1>1 DEF Open
  <1>2. CASE Capture(j)
    BY <1>2 DEF Capture
  <1>3. CASE GiveUp(j)
    BY <1>3 DEF GiveUp
  <1>4. CASE LinkAt(j)
    BY <1>4 DEF LinkAt
  <1>5. CASE StartCopy(j)
    BY <1>5 DEF StartCopy
  <1>12. CASE FinishCopy(j)
    <2>1. fd[j] # j /\ fd[j] \in Inodes /\ Content(fd[j]) \in Contents
      BY <1>12, ContentType DEF FinishCopy
    <2>2. \A i \in Inodes : i # j => Content(i)' = Content(i)
      BY <1>12 DEF FinishCopy
    <2>3. TypeOK'
      BY <1>12, <2>1 DEF FinishCopy
    <2>4. CopyInv' /\ StageInv'
      BY <1>12, <2>1 DEF FinishCopy
    <2>5. RightContent'
      BY <1>12, <2>1, <2>2 DEF FinishCopy
    <2> QED
      BY <2>3, <2>4, <2>5
  <1>13. CASE CopyFails(j)
    BY <1>13 DEF CopyFails
  <1>6. CASE write_quarantine_meta(j)
    BY <1>6 DEF write_quarantine_meta
  <1>7. CASE Chmod(j)
    BY <1>7 DEF Chmod
  <1>8. CASE ChmodFails(j)
    BY <1>8 DEF ChmodFails
  <1>9. CASE BeforeUnlink(j)
    BY <1>9 DEF BeforeUnlink
  <1>10. CASE Refuse(j)
    BY <1>10 DEF Refuse
  <1>11. CASE Unlink(j)
    <2>1. path # None => Content(path) \in Contents
      BY ContentType
    <2> QED
      BY <1>11, <2>1 DEF Unlink
  <1> QED
    BY <1>1, <1>2, <1>3, <1>4, <1>5, <1>6, <1>7, <1>8, <1>9, <1>10, <1>11, <1>12, <1>13
    DEF quarantine_file

\* The steps of a command.
LEMMA CommandIInv == ASSUME IInv, NEW o \in Commands, Command(o) PROVE IInv'
  <1> USE NamesAssumption DEF Inodes
  <1> USE DEF IInv, TypeOK, CopyInv, StageInv, RightContent, jobVars, commandVars,
              fileVars, Content, Turn, Reply, Modes, Short
  <1>0. \A i \in Inodes : (i \in Jobs => copied[i] # None) => Content(i) \in Contents
    BY ContentType
  <1>1. ASSUME NEW j \in Jobs, Restore(o, j) PROVE IInv'
    BY <1>1 DEF Restore, HasMeta
  <1>2. ASSUME NEW j \in Jobs, Delete(o, j) PROVE IInv'
    BY <1>2 DEF Delete
  <1>3. CASE OpenEntry(o)
    BY <1>3 DEF OpenEntry
  <1>4. CASE BeforeRename(o)
    BY <1>4 DEF BeforeRename
  <1>5. CASE Fchmod(o)
    <2>1. cfd[o] \in Inodes /\ Content(cfd[o]) \in Contents
      BY <1>5, <1>0 DEF Fchmod
    <2> QED
      BY <1>5, <2>1 DEF Fchmod
  <1>6. CASE Rename(o)
    <2>1. path # None => Content(path) \in Contents
      BY <1>0
    <2>2. id[o] \in Jobs
      BY <1>6 DEF Rename
    <2> QED
      BY <1>6, <2>1, <2>2 DEF Rename
  <1>7. CASE RestoreFails(o)
    BY <1>7 DEF RestoreFails
  <1>8. CASE UnlinkMeta(o)
    BY <1>8 DEF UnlinkMeta
  <1> QED
    BY <1>1, <1>2, <1>3, <1>4, <1>5, <1>6, <1>7, <1>8 DEF Command

\* Every step preserves the invariant.
LEMMA NextIInv == ASSUME IInv, [Next]_vars PROVE IInv'
  <1>1. CASE User
    BY <1>1, UserIInv
  <1>2. ASSUME NEW j \in Jobs, Open(j) \/ quarantine_file(j) PROVE IInv'
    BY <1>2, JobIInv
  <1>3. ASSUME NEW o \in Commands, Command(o) PROVE IInv'
    BY <1>3, CommandIInv
  <1>4. CASE Crash
    <2>1. TypeOK'
      BY <1>4 DEF Crash, IInv, TypeOK, fileVars, Modes, Inodes
    <2>2. CopyInv' /\ StageInv'
      BY <1>4, NamesAssumption DEF Crash, IInv, TypeOK, CopyInv, StageInv, fileVars, Inodes, Short
    <2>3. RightContent'
      BY <1>4 DEF Crash, IInv, RightContent, StageInv, fileVars, Content, Short
    <2> QED
      BY <2>1, <2>2, <2>3 DEF IInv
  <1>5. CASE UNCHANGED vars
    BY <1>5 DEF vars, IInv, TypeOK, CopyInv, StageInv, RightContent, fileVars, jobVars,
         commandVars, Content, Short
  <1> QED
    BY <1>1, <1>2, <1>3, <1>4, <1>5 DEF Next

\* The inductive invariant holds: copies, names, metadata and open files fit
\* together.
THEOREM InvariantHolds == Spec => []IInv
  <1>1. Init => IInv
    BY InitIInv
  <1>2. IInv /\ [Next]_vars => IInv'
    BY NextIInv
  <1> QED BY <1>1, <1>2, PTL DEF Spec

\* Quarantine is type correct: no step works on an entry that is not there.
THEOREM TypeCorrect == Spec => []TypeOK
  <1>1. IInv => TypeOK
    BY DEF IInv
  <1> QED BY <1>1, InvariantHolds, PTL

\* quarantine_file() keeps what was scanned, whatever happens to the path; a
\* copy that a failure or a crash cut short never leaves quarantine.
THEOREM KeepsRightContent == Spec => []RightContent
  <1>1. IInv => RightContent
    BY DEF IInv
  <1> QED BY <1>1, InvariantHolds, PTL

-----------------------------------------------------------------------------
(* Entries are locked before the original goes.                            *)

GuardInv == TraceInv /\ LockInv

\* Users of the path.
LEMMA UserGuard == ASSUME FullInv, User PROVE GuardInv'
  <1> USE NamesAssumption DEF FullInv, IInv, GuardInv, TypeOK, CopyInv, StageInv, RightContent,
              TraceInv, LockInv, Locked, Short, Inodes, Content, jobVars, commandVars
  <1>1. ASSUME NEW c \in Contents, UserCreates(c) PROVE GuardInv'
    BY <1>1 DEF UserCreates
  <1>2. CASE UserUnlinks
    BY <1>2 DEF UserUnlinks
  <1>3. CASE UserRenamesAway
    BY <1>3 DEF UserRenamesAway
  <1> QED BY <1>1, <1>2, <1>3 DEF User

\* The steps of a scan.
LEMMA JobGuard ==
  ASSUME FullInv, NEW j \in Jobs, Open(j) \/ quarantine_file(j)
  PROVE  GuardInv'
  <1> USE NamesAssumption DEF FullInv, IInv, GuardInv, TypeOK, CopyInv, StageInv, RightContent,
              TraceInv, LockInv, Locked, Short, Inodes, Content, jobVars, commandVars, fileVars, Goto,
              JobKeeps, Done, Discard
  <1>1. CASE Open(j)
    BY <1>1 DEF Open
  <1>2. CASE Capture(j)
    BY <1>2 DEF Capture
  <1>3. CASE GiveUp(j)
    BY <1>3 DEF GiveUp
  <1>4. CASE LinkAt(j)
    BY <1>4 DEF LinkAt
  <1>5. CASE StartCopy(j)
    BY <1>5 DEF StartCopy
  <1>12. CASE FinishCopy(j)
    BY <1>12 DEF FinishCopy
  <1>13. CASE CopyFails(j)
    BY <1>13 DEF CopyFails
  <1>6. CASE write_quarantine_meta(j)
    BY <1>6 DEF write_quarantine_meta
  <1>7. CASE Chmod(j)
    BY <1>7 DEF Chmod
  <1>8. CASE ChmodFails(j)
    BY <1>8 DEF ChmodFails
  <1>9. CASE BeforeUnlink(j)
    BY <1>9 DEF BeforeUnlink, Recheck
  <1>10. CASE Refuse(j)
    BY <1>10 DEF Refuse
  <1>11. CASE Unlink(j)
    BY <1>11 DEF Unlink
  <1> QED
    BY <1>1, <1>2, <1>3, <1>4, <1>5, <1>6, <1>7, <1>8, <1>9, <1>10, <1>11, <1>12, <1>13
    DEF quarantine_file

\* The steps of a command.
LEMMA CommandGuard == ASSUME FullInv, NEW o \in Commands, Command(o) PROVE GuardInv'
  <1> USE NamesAssumption DEF FullInv, IInv, GuardInv, TypeOK, CopyInv, StageInv, RightContent,
              TraceInv, LockInv, Locked, Short, Inodes, Content, jobVars, commandVars, fileVars, Turn, Reply
  <1>1. ASSUME NEW j \in Jobs, Restore(o, j) PROVE GuardInv'
    BY <1>1 DEF Restore
  <1>2. ASSUME NEW j \in Jobs, Delete(o, j) PROVE GuardInv'
    BY <1>2 DEF Delete
  <1>3. CASE OpenEntry(o)
    BY <1>3 DEF OpenEntry
  <1>4. CASE BeforeRename(o)
    BY <1>4 DEF BeforeRename
  <1>5. CASE Fchmod(o)
    BY <1>5 DEF Fchmod
  <1>6. CASE Rename(o)
    BY <1>6 DEF Rename
  <1>7. CASE RestoreFails(o)
    BY <1>7 DEF RestoreFails
  <1>8. CASE UnlinkMeta(o)
    BY <1>8 DEF UnlinkMeta
  <1> QED
    BY <1>1, <1>2, <1>3, <1>4, <1>5, <1>6, <1>7, <1>8 DEF Command

\* Locking and traces survive every step.
LEMMA NextGuard == ASSUME FullInv, [Next]_vars PROVE GuardInv'
  <1>1. CASE User
    BY <1>1, UserGuard
  <1>2. ASSUME NEW j \in Jobs, Open(j) \/ quarantine_file(j) PROVE GuardInv'
    BY <1>2, JobGuard
  <1>3. ASSUME NEW o \in Commands, Command(o) PROVE GuardInv'
    BY <1>3, CommandGuard
  <1>4. CASE Crash
    BY <1>4 DEF Crash, FullInv, IInv, GuardInv, TypeOK, TraceInv, LockInv, Locked, fileVars, Content
  <1>5. CASE UNCHANGED vars
    BY <1>5 DEF vars, FullInv, GuardInv, TraceInv, LockInv, Locked, fileVars, jobVars,
         commandVars, Content
  <1> QED
    BY <1>1, <1>2, <1>3, <1>4, <1>5 DEF Next

-----------------------------------------------------------------------------
(* Nothing is lost.                                                        *)

\* The two sets of jobs are finite.
LEMMA KeptFinite ==
  ASSUME NEW c
  PROVE  /\ IsFiniteSet(Kept(c)) /\ Cardinality(Kept(c)) \in Nat
         /\ IsFiniteSet(Removing(c)) /\ Cardinality(Removing(c)) \in Nat
         /\ IsFiniteSet(Kept(c)') /\ Cardinality(Kept(c)') \in Nat
         /\ IsFiniteSet(Removing(c)') /\ Cardinality(Removing(c)') \in Nat
         /\ AtPath(c) \in 0 .. 1 /\ AtPath(c)' \in 0 .. 1
  <1>1. /\ Kept(c) \in SUBSET Jobs /\ Removing(c) \in SUBSET Jobs
        /\ Kept(c)' \in SUBSET Jobs /\ Removing(c)' \in SUBSET Jobs
    BY DEF Kept, Removing
  <1>2. AtPath(c) \in 0 .. 1 /\ AtPath(c)' \in 0 .. 1
    BY DEF AtPath
  <1> QED  BY <1>1, <1>2, JobsAssumption, FS_Subset, FS_CardinalityType

\* What a user keeps elsewhere is never removed.
StaysElsewhere(c) ==
    (\E i \in elsewhere : Content(i) = c) => (\E i \in elsewhere : Content(i) = c)'

\* A step that takes no link away and lets no further job remove one.
LEMMA EnoughMore ==
  ASSUME NEW c, Enough(c), StaysElsewhere(c), Kept(c) \subseteq Kept(c)',
         Removing(c)' \subseteq Removing(c), AtPath(c)' >= AtPath(c)
  PROVE  Enough(c)'
  <1>1. Cardinality(Kept(c)) <= Cardinality(Kept(c)')
        /\ Cardinality(Removing(c)') <= Cardinality(Removing(c))
    BY KeptFinite, FS_Subset
  <1>2. CASE Cardinality(Kept(c)) + AtPath(c) > Cardinality(Removing(c))
    <2>1. Cardinality(Kept(c)') + AtPath(c)' > Cardinality(Removing(c)')
      BY <1>1, <1>2, KeptFinite
    <2> QED  BY <2>1 DEF Enough
  <1> QED  BY <1>2 DEF Enough, StaysElsewhere

\* A job that removes the link at the path ends with that.
LEMMA EnoughUnlink ==
  ASSUME NEW c, NEW j \in Jobs, Enough(c), StaysElsewhere(c), Kept(c) \subseteq Kept(c)',
         j \in Removing(c), Removing(c)' \subseteq Removing(c) \ {j}
  PROVE  Enough(c)'
  <1>1. Cardinality(Removing(c) \ {j}) = Cardinality(Removing(c)) - 1
        /\ IsFiniteSet(Removing(c) \ {j})
    BY KeptFinite, FS_RemoveElement
  <1>2. Cardinality(Kept(c)) <= Cardinality(Kept(c)')
        /\ Cardinality(Removing(c)') <= Cardinality(Removing(c) \ {j})
    BY <1>1, KeptFinite, FS_Subset
  <1>3. CASE Cardinality(Kept(c)) + AtPath(c) > Cardinality(Removing(c))
    <2>1. Cardinality(Kept(c)') + AtPath(c)' > Cardinality(Removing(c)')
      BY <1>1, <1>2, <1>3, KeptFinite
    <2> QED  BY <2>1 DEF Enough
  <1> QED  BY <1>3 DEF Enough, StaysElsewhere

\* A job that may remove a link from now on has added one that stays.
LEMMA EnoughChmod ==
  ASSUME NEW c, NEW j \in Jobs, Enough(c), StaysElsewhere(c), AtPath(c)' = AtPath(c),
         j \notin Kept(c), Kept(c)' = Kept(c) \cup {j},
         Removing(c)' \subseteq Removing(c) \cup {j}
  PROVE  Enough(c)'
  <1>1. /\ Cardinality(Kept(c)') = Cardinality(Kept(c)) + 1
        /\ Cardinality(Removing(c) \cup {j}) <= Cardinality(Removing(c)) + 1
        /\ IsFiniteSet(Removing(c) \cup {j}) /\ Cardinality(Removing(c) \cup {j}) \in Nat
    <2>1. /\ Cardinality(Kept(c) \cup {j}) = Cardinality(Kept(c)) + 1
          /\ IsFiniteSet(Removing(c) \cup {j})
          /\ Cardinality(Removing(c) \cup {j})
               = IF j \in Removing(c) THEN Cardinality(Removing(c))
                                      ELSE Cardinality(Removing(c)) + 1
      BY KeptFinite, FS_AddElement
    <2> QED  BY <2>1, KeptFinite
  <1>2. Cardinality(Removing(c)') <= Cardinality(Removing(c) \cup {j})
    BY <1>1, KeptFinite, FS_Subset
  <1>3. CASE Cardinality(Kept(c)) + AtPath(c) > Cardinality(Removing(c))
    <2>1. Cardinality(Kept(c)') + AtPath(c)' > Cardinality(Removing(c)')
      BY <1>1, <1>2, <1>3, KeptFinite
    <2> QED  BY <2>1 DEF Enough
  <1> QED  BY <1>3 DEF Enough, StaysElsewhere

\* An entry that is restored becomes the link at the path.
LEMMA EnoughRename ==
  ASSUME NEW c, NEW j \in Jobs, Enough(c), StaysElsewhere(c), AtPath(c) = 0, AtPath(c)' = 1,
         Kept(c) \ {j} \subseteq Kept(c)', Removing(c)' = Removing(c)
  PROVE  Enough(c)'
  <1>1. /\ Cardinality(Kept(c) \ {j}) >= Cardinality(Kept(c)) - 1
        /\ Cardinality(Kept(c) \ {j}) \in Nat
    <2>1. /\ IsFiniteSet(Kept(c) \ {j})
          /\ Cardinality(Kept(c) \ {j}) = IF j \in Kept(c) THEN Cardinality(Kept(c)) - 1
                                          ELSE Cardinality(Kept(c))
      BY KeptFinite, FS_RemoveElement
    <2>2. Cardinality(Kept(c) \ {j}) \in Nat
      BY <2>1, FS_CardinalityType
    <2> QED  BY <2>1, <2>2, KeptFinite
  <1>2. Cardinality(Kept(c) \ {j}) <= Cardinality(Kept(c)')
    BY KeptFinite, FS_Subset
  <1>3. CASE Cardinality(Kept(c)) + AtPath(c) > Cardinality(Removing(c))
    <2>1. Cardinality(Kept(c)') + AtPath(c)' > Cardinality(Removing(c)')
      BY <1>1, <1>2, <1>3, KeptFinite
    <2> QED  BY <2>1 DEF Enough
  <1> QED  BY <1>3 DEF Enough, StaysElsewhere

\* A content that just came to the path is nobody's to remove yet.
LEMMA EnoughNew == ASSUME NEW c, Removing(c)' = {}, AtPath(c)' = 1 PROVE Enough(c)'
  <1>1. Cardinality(Removing(c)') = 0
    BY FS_EmptySet
  <1>2. Cardinality(Kept(c)') \in Nat
    BY KeptFinite
  <1>3. Cardinality(Kept(c)') + AtPath(c)' > Cardinality(Removing(c)')
    BY <1>1, <1>2
  <1> QED  BY <1>3 DEF Enough

\* Users add a link, keep it elsewhere, or remove it on purpose.
LEMMA UserLink == ASSUME FullInv, User, NEW c \in (made \ gone)' PROVE Enough(c)'
  <1> USE NamesAssumption DEF FullInv, IInv, TypeOK, CopyInv, StageInv, RightContent, TraceInv,
              LinkInv, Inodes, Content, Kept, Removing, AtPath, StaysElsewhere, jobVars,
              commandVars, Short
  <1>1. ASSUME NEW d \in Contents, UserCreates(d) PROVE Enough(c)'
    <2>1. CASE c = d
      <3>1. Removing(c)' = {} /\ AtPath(c)' = 1
        BY <1>1, <2>1 DEF UserCreates
      <3> QED  BY <3>1, EnoughNew
    <2>2. CASE c # d
      <3>1. Enough(c) /\ StaysElsewhere(c)
        BY <1>1, <2>2 DEF UserCreates
      <3>2. Kept(c) \subseteq Kept(c)' /\ Removing(c)' \subseteq Removing(c)
            /\ AtPath(c)' >= AtPath(c)
        BY <1>1 DEF UserCreates
      <3> QED  BY <3>1, <3>2, EnoughMore
    <2> QED  BY <2>1, <2>2
  <1>2. CASE UserUnlinks
    <2>1. Enough(c) /\ StaysElsewhere(c)
      BY <1>2 DEF UserUnlinks
    <2>2. Kept(c) \subseteq Kept(c)' /\ Removing(c)' \subseteq Removing(c)
          /\ AtPath(c)' >= AtPath(c)
      BY <1>2 DEF UserUnlinks
    <2> QED  BY <2>1, <2>2, EnoughMore
  <1>3. CASE UserRenamesAway
    <2>1. CASE Content(path) = c
      <3>1. (\E i \in elsewhere : Content(i) = c)'
        BY <1>3, <2>1 DEF UserRenamesAway
      <3> QED  BY <3>1 DEF Enough
    <2>2. CASE Content(path) # c
      <3>1. Enough(c) /\ StaysElsewhere(c)
        BY <1>3 DEF UserRenamesAway
      <3>2. Kept(c) \subseteq Kept(c)' /\ Removing(c)' \subseteq Removing(c)
            /\ AtPath(c)' >= AtPath(c)
        BY <1>3, <2>2 DEF UserRenamesAway
      <3> QED  BY <3>1, <3>2, EnoughMore
    <2> QED  BY <2>1, <2>2
  <1> QED BY <1>1, <1>2, <1>3 DEF User

\* A job adds its entry before it may remove the path.
LEMMA JobLink ==
  ASSUME FullInv, NEW j \in Jobs, Open(j) \/ quarantine_file(j), NEW c \in (made \ gone)'
  PROVE  Enough(c)'
  <1> USE NamesAssumption DEF FullInv, IInv, TypeOK, CopyInv, StageInv, RightContent, TraceInv,
              LinkInv, Inodes, Content, Kept, Removing, AtPath, StaysElsewhere, jobVars,
              commandVars, fileVars, Goto, JobKeeps, Done, Discard, Short
  <1>0. ASSUME c \in made \ gone, StaysElsewhere(c), Kept(c) \subseteq Kept(c)',
               Removing(c)' \subseteq Removing(c), AtPath(c)' >= AtPath(c)
        PROVE  Enough(c)'
    <2>1. Enough(c)
      BY <1>0
    <2> QED  BY <1>0, <2>1, EnoughMore
  <1>1. CASE Open(j)
    BY <1>0, <1>1 DEF Open
  <1>2. CASE Capture(j)
    BY <1>0, <1>2 DEF Capture
  <1>3. CASE GiveUp(j)
    BY <1>0, <1>3 DEF GiveUp
  <1>4. CASE LinkAt(j)
    BY <1>0, <1>4 DEF LinkAt
  <1>5. CASE StartCopy(j)
    BY <1>0, <1>5 DEF StartCopy
  <1>12. CASE FinishCopy(j)
    BY <1>0, <1>12 DEF FinishCopy
  <1>13. CASE CopyFails(j)
    BY <1>0, <1>13 DEF CopyFails
  <1>6. CASE write_quarantine_meta(j)
    BY <1>0, <1>6 DEF write_quarantine_meta
  <1>7. CASE Chmod(j)
    <2>1. Enough(c) /\ StaysElsewhere(c) /\ AtPath(c)' = AtPath(c)
      BY <1>7 DEF Chmod
    <2>2. CASE Content(dest[j]) = c
      <3>1. /\ j \notin Kept(c) /\ Kept(c)' = Kept(c) \cup {j}
            /\ Removing(c)' \subseteq Removing(c) \cup {j}
        BY <1>7, <2>2 DEF Chmod
      <3> QED  BY <2>1, <3>1, EnoughChmod
    <2>3. CASE Content(dest[j]) # c
      BY <1>0, <1>7, <2>3 DEF Chmod
    <2> QED  BY <2>2, <2>3
  <1>8. CASE ChmodFails(j)
    BY <1>0, <1>8 DEF ChmodFails
  <1>9. CASE BeforeUnlink(j)
    BY <1>0, <1>9 DEF BeforeUnlink, Recheck
  <1>10. CASE Refuse(j)
    BY <1>0, <1>10 DEF Refuse
  <1>11. CASE Unlink(j)
    <2>1. c \in made \ gone /\ StaysElsewhere(c) /\ Kept(c) \subseteq Kept(c)'
      BY <1>11 DEF Unlink
    <2>2. CASE path' = path \/ Content(path) # c
      <3>1. Removing(c)' \subseteq Removing(c) /\ AtPath(c)' >= AtPath(c)
        BY <1>11, <2>2 DEF Unlink
      <3> QED  BY <1>0, <2>1, <3>1
    <2>3. CASE path' # path /\ Content(path) = c
      <3>1. path = fd[j]
        BY <1>11, <2>3 DEF Unlink
      <3>2. j \in Removing(c) /\ Removing(c)' \subseteq Removing(c) \ {j}
        BY <1>11, <2>3, <3>1 DEF Unlink
      <3>3. Enough(c)
        BY <2>1
      <3> QED  BY <2>1, <3>2, <3>3, EnoughUnlink
    <2> QED  BY <2>2, <2>3
  <1> QED
    BY <1>1, <1>2, <1>3, <1>4, <1>5, <1>6, <1>7, <1>8, <1>9, <1>10, <1>11, <1>12, <1>13
    DEF quarantine_file

\* A command takes a link only on purpose, and a restore puts one at the path.
LEMMA CommandLink ==
  ASSUME FullInv, NEW o \in Commands, Command(o), NEW c \in (made \ gone)'
  PROVE  Enough(c)'
  <1> USE NamesAssumption DEF FullInv, IInv, TypeOK, CopyInv, StageInv, RightContent, TraceInv,
              LinkInv, Inodes, Content, Kept, Removing, AtPath, StaysElsewhere, jobVars,
              commandVars, fileVars, Turn, Reply, Short
  <1>0. ASSUME c \in made \ gone, StaysElsewhere(c), Kept(c) \subseteq Kept(c)',
               Removing(c)' \subseteq Removing(c), AtPath(c)' >= AtPath(c)
        PROVE  Enough(c)'
    <2>1. Enough(c)
      BY <1>0
    <2> QED  BY <1>0, <2>1, EnoughMore
  <1>1. ASSUME NEW j \in Jobs, Restore(o, j) PROVE Enough(c)'
    BY <1>0, <1>1 DEF Restore
  <1>2. ASSUME NEW j \in Jobs, Delete(o, j) PROVE Enough(c)'
    <2>1. c \in made \ gone /\ StaysElsewhere(c)
      BY <1>2 DEF Delete
    <2>2. Removing(c)' = Removing(c) /\ AtPath(c)' = AtPath(c)
      BY <1>2 DEF Delete
    <2>3. Kept(c) \subseteq Kept(c)'
      BY <1>2 DEF Delete
    <2> QED  BY <1>0, <2>1, <2>2, <2>3
  <1>3. CASE OpenEntry(o)
    BY <1>0, <1>3 DEF OpenEntry
  <1>4. CASE BeforeRename(o)
    BY <1>0, <1>4 DEF BeforeRename
  <1>5. CASE Fchmod(o)
    BY <1>0, <1>5 DEF Fchmod
  <1>6. CASE Rename(o)
    <2>1. c \in made \ gone /\ StaysElsewhere(c) /\ Removing(c)' = Removing(c)
      BY <1>6 DEF Rename
    <2>2. CASE dest[id[o]] = path
      <3>1. Kept(c)' = Kept(c) /\ AtPath(c)' = AtPath(c)
        BY <1>6, <2>2 DEF Rename
      <3> QED  BY <1>0, <2>1, <3>1
    <2>3. CASE dest[id[o]] # path
      <3>1. AtPath(c) = 0
        BY <1>6, <2>3 DEF Rename
      <3>2. id[o] \in Jobs /\ Kept(c) \ {id[o]} \subseteq Kept(c)'
        BY <1>6, <2>3 DEF Rename
      <3>3. CASE Content(dest[id[o]]) = c
        <4>1. AtPath(c)' = 1
          BY <1>6, <2>3, <3>3 DEF Rename
        <4>2. Enough(c)
          BY <2>1
        <4> QED  BY <2>1, <3>1, <3>2, <4>1, <4>2, EnoughRename
      <3>4. CASE Content(dest[id[o]]) # c
        <4>1. Kept(c) \subseteq Kept(c)' /\ AtPath(c)' >= AtPath(c)
          BY <1>6, <2>3, <3>1, <3>4 DEF Rename
        <4> QED  BY <1>0, <2>1, <4>1
      <3> QED  BY <3>3, <3>4
    <2> QED  BY <2>2, <2>3
  <1>7. CASE RestoreFails(o)
    BY <1>0, <1>7 DEF RestoreFails
  <1>8. CASE UnlinkMeta(o)
    BY <1>0, <1>8 DEF UnlinkMeta
  <1> QED
    BY <1>1, <1>2, <1>3, <1>4, <1>5, <1>6, <1>7, <1>8 DEF Command

\* Every step leaves enough links of every content.
LEMMA NextLink == ASSUME FullInv, [Next]_vars PROVE LinkInv'
  <1> SUFFICES ASSUME NEW c \in (made \ gone)' PROVE Enough(c)'
    BY DEF LinkInv
  <1>1. CASE User
    BY <1>1, UserLink
  <1>2. ASSUME NEW j \in Jobs, Open(j) \/ quarantine_file(j) PROVE Enough(c)'
    BY <1>2, JobLink
  <1>3. ASSUME NEW o \in Commands, Command(o) PROVE Enough(c)'
    BY <1>3, CommandLink
  <1>4. CASE Crash \/ UNCHANGED vars
    <2>1. /\ Enough(c) /\ StaysElsewhere(c) /\ Kept(c) \subseteq Kept(c)'
          /\ Removing(c)' \subseteq Removing(c) /\ AtPath(c)' = AtPath(c)
      BY <1>4 DEF Crash, vars, fileVars, jobVars, FullInv, IInv, TypeOK, LinkInv,
           StaysElsewhere, Kept, Removing, AtPath, Content
    <2> QED  BY <2>1, KeptFinite, EnoughMore
  <1> QED
    BY <1>1, <1>2, <1>3, <1>4 DEF Next

\* The full invariant holds: every content has a link more than there are jobs
\* that may take one.
THEOREM FullInvariantHolds == Spec => []FullInv
  <1>1. Init => FullInv
    <2> SUFFICES ASSUME Init PROVE FullInv
      OBVIOUS
    <2>1. IInv
      BY InitIInv
    <2>2. TraceInv /\ LockInv /\ LinkInv
      BY NamesAssumption DEF Init, TraceInv, LockInv, LinkInv, Inodes
    <2> QED  BY <2>1, <2>2 DEF FullInv
  <1>2. FullInv /\ [Next]_vars => FullInv'
    <2> SUFFICES ASSUME FullInv, [Next]_vars PROVE FullInv'
      OBVIOUS
    <2>1. IInv'
      BY NextIInv DEF FullInv
    <2> QED  BY <2>1, NextGuard, NextLink DEF FullInv, GuardInv
  <1> QED BY <1>1, <1>2, PTL DEF Spec

\* The daemon never destroys the last link to a content, whatever fails and
\* wherever it is killed, unless that was asked for or a race at the path.
THEOREM NothingIsLost == Spec => []NothingLost
  <1>1. FullInv => NothingLost
    <2> SUFFICES ASSUME FullInv, NEW c \in made \ gone
                 PROVE  \E i \in Inodes : Linked(i) /\ Content(i) = c
      BY DEF NothingLost
    <2> USE DEF FullInv, IInv, TypeOK
    <2>1. Enough(c)
      BY DEF LinkInv
    <2>2. CASE \E i \in elsewhere : Content(i) = c
      BY <2>2 DEF Linked
    <2>3. CASE Kept(c) # {}
      BY <2>3 DEF Kept, Linked
    <2>4. CASE AtPath(c) # 0
      BY <2>4 DEF AtPath, Linked
    <2>5. ASSUME Kept(c) = {}, AtPath(c) = 0 PROVE \E i \in elsewhere : Content(i) = c
      <3>1. Cardinality(Kept(c)) = 0
        BY <2>5, FS_EmptySet
      <3>2. Cardinality(Removing(c)) \in Nat
        BY KeptFinite
      <3>3. ~(Cardinality(Kept(c)) + AtPath(c) > Cardinality(Removing(c)))
        BY <2>5, <3>1, <3>2
      <3> QED  BY <2>1, <3>3 DEF Enough
    <2> QED  BY <2>2, <2>3, <2>4, <2>5
  <1> QED BY <1>1, FullInvariantHolds, PTL

\* No scan removes the file it convicted before the whole of it is locked away
\* in quarantine.
THEOREM RemovedOnlyWhenLocked == Spec => LockedBeforeRemoved
  <1>1. FullInv /\ [Next]_vars =>
          [\A j \in Jobs :
              (pc[j] = "unlink" /\ pc'[j] = "done" /\ path = fd[j] /\ path' = None)
                  => \/ Content(fd[j]) \in gone \cup restored
                     \/ Locked(j)]_vars
    BY DEF FullInv, LockInv
  <1> QED BY <1>1, FullInvariantHolds, PTL DEF Spec, LockedBeforeRemoved
=============================================================================
