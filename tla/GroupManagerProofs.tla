------------------------- MODULE GroupManagerProofs -------------------------
(***************************************************************************)
(* Committed offsets survive: the theorems about module GroupManager, for  *)
(* every set of groups, partitions and offsets and under every failure.    *)
(***************************************************************************)
EXTENDS GroupManager, TLAPS

-----------------------------------------------------------------------------
(* The inductive invariant, part by part.                                   *)

Committing ==
  [stage : {"map", "write", "rename"}, g : Groups, k : Keys, off : Offsets]

\* Shapes, those of the ghosts and of the running CommitOffset included.
ShapeInv ==
  /\ TypeOK
  /\ commit = Idle \/ commit \in Committing
  /\ forgot \subseteq Groups
  /\ tried \in [Groups -> [Keys -> SUBSET Offsets]]

\* How far the running CommitOffset is: it was tried; once past the map the
\* group in memory holds its offset; before the rename the temporary file is
\* the group in memory.
CommitInv ==
  commit # Idle =>
    /\ running
    /\ commit.off \in tried[commit.g][commit.k]
    /\ commit.stage \in {"write", "rename"} =>
         groups[commit.g] \in Contents /\ groups[commit.g][commit.k] = commit.off
    /\ commit.stage = "rename" => tmps[commit.g] = groups[commit.g]

\* AckedOnDisk and AckedServed need each other: a rename puts on disk what is
\* in memory, a start puts in memory what is on disk.
GroupInv == ShapeInv /\ CommitInv /\ AckedOnDisk /\ AckedServed

-----------------------------------------------------------------------------
(* Lemmas.                                                                  *)

\* None and Absent are no offsets and no contents.
LEMMA Sentinels ==
  /\ None \notin Offsets
  /\ Absent \notin Contents /\ Partial \notin Contents
  /\ NoOffsets \in Contents
  BY GroupsAssumption DEF None, Contents, NoOffsets

\* The fields of a running CommitOffset, and what it is not.
LEMMA CommitFields ==
  ASSUME ShapeInv, commit.stage # "idle"
  PROVE  /\ commit # Idle /\ commit \in Committing
         /\ commit.g \in Groups /\ commit.k \in Keys /\ commit.off \in Offsets
  BY DEF ShapeInv, Committing, Idle

\* An offset that was committed is not None and was asked for by somebody.
LEMMA TriedAreOffsets ==
  ASSUME ShapeInv, NEW g \in Groups, NEW k \in Keys
  PROVE  /\ tried[g][k] \subseteq Offsets
         /\ acked[g][k] \in Offsets \union {None}
         /\ acked[g] \in Contents
  BY DEF ShapeInv, TypeOK, Contents

-----------------------------------------------------------------------------
(* One lemma per action.                                                    *)

\* NewGroupManager loads every file it can read.
LEMMA StartStep ==
  ASSUME GroupInv, Start PROVE GroupInv'
<1>1. PICK unread \in SUBSET Groups :
        /\ groups' = [g \in Groups |-> IF g \in unread THEN Absent ELSE Loaded(g)]
        /\ forgot' = {g \in unread : files[g] # Absent}
  BY DEF Start
<1>2. /\ running' = TRUE /\ ~running
      /\ UNCHANGED <<files, tmps, commit, listing, commits, acked, tried>>
  BY DEF Start, disk
<1>3. ShapeInv /\ commit = Idle
  BY <1>2 DEF GroupInv, CommitInv
<1>4. ShapeInv'
  BY <1>1, <1>2, <1>3 DEF ShapeInv, TypeOK, Loaded
<1>5. CommitInv' /\ AckedOnDisk'
  BY <1>2, <1>3 DEF GroupInv, CommitInv, AckedOnDisk
<1>6. AckedServed'
  <2> SUFFICES ASSUME NEW g \in Groups \ forgot', NEW k \in Keys, acked[g][k] # None
               PROVE  GetOffset(g, k)' \in {acked[g][k]} \union tried[g][k]
    BY <1>2 DEF AckedServed
  <2>1. files[g] \in Contents /\ files[g][k] \in {acked[g][k]} \union tried[g][k]
    BY DEF GroupInv, AckedOnDisk
  <2>2. g \notin unread
    BY <1>1, <2>1, Sentinels
  <2>3. groups'[g] = files[g] /\ groups'[g] # Absent
    BY <1>1, <2>1, <2>2, Sentinels DEF Loaded
  <2> QED
    BY <2>1, <2>3 DEF GetOffset
<1> QED
  BY <1>4, <1>5, <1>6 DEF GroupInv

\* The process ends, by Stop, a crash or the Go runtime; only a temporary file
\* may have changed.
LEMMA DownStep ==
  ASSUME GroupInv, Down, UNCHANGED <<files, ghost>>,
         \/ UNCHANGED tmps
         \/ commit # Idle /\ tmps' = [tmps EXCEPT ![commit.g] = Partial]
  PROVE  GroupInv'
<1>1. ShapeInv
  BY DEF GroupInv
<1>2. ShapeInv'
  BY <1>1 DEF ShapeInv, TypeOK, Down, ghost, Idle
<1> QED
  BY <1>2 DEF GroupInv, CommitInv, AckedOnDisk, AckedServed, Down, ghost

\* CommitOffset is called: the offset counts as tried.
LEMMA CallStep ==
  ASSUME GroupInv, NEW g \in Groups, NEW k \in Keys, NEW off \in Offsets,
         CommitOffset(g, k, off)
  PROVE  GroupInv'
<1>1. /\ running /\ UNCHANGED <<running, groups, files, tmps, listing, forgot, acked>>
      /\ commit' = [stage |-> "map", g |-> g, k |-> k, off |-> off]
      /\ tried' = [tried EXCEPT ![g][k] = @ \union {off}]
  BY DEF CommitOffset, disk
<1>2. ShapeInv
  BY DEF GroupInv
<1>3. /\ commit' \in Committing /\ commit'.stage = "map"
      /\ commit'.g = g /\ commit'.k = k /\ commit'.off = off
  BY <1>1 DEF Committing
<1>4. /\ tried' \in [Groups -> [Keys -> SUBSET Offsets]]
      /\ off \in tried'[g][k]
      /\ \A h \in Groups, l \in Keys : tried[h][l] \subseteq tried'[h][l]
  BY <1>1, <1>2 DEF ShapeInv
<1>5. ShapeInv'
  BY <1>1, <1>2, <1>3, <1>4 DEF ShapeInv, TypeOK
<1>6. CommitInv'
  BY <1>1, <1>3, <1>4 DEF CommitInv
<1>7. AckedOnDisk' /\ AckedServed'
  BY <1>1, <1>4 DEF GroupInv, AckedOnDisk, AckedServed, GetOffset
<1> QED
  BY <1>5, <1>6, <1>7 DEF GroupInv

\* The offset goes into the map; what else the map holds stays.
LEMMA MapStep ==
  ASSUME GroupInv, UpdateMap PROVE GroupInv'
<1> DEFINE g   == commit.g
           k   == commit.k
           old == IF groups[g] = Absent THEN NoOffsets ELSE groups[g]
           new == [old EXCEPT ![k] = commit.off]
<1>1. ShapeInv /\ commit.stage = "map"
  BY DEF GroupInv, UpdateMap, At
<1>2. /\ commit \in Committing /\ g \in Groups /\ k \in Keys /\ commit.off \in Offsets
      /\ running /\ commit.off \in tried[g][k]
  BY <1>1, CommitFields DEF GroupInv, CommitInv
<1>3. /\ groups' = [groups EXCEPT ![g] = new]
      /\ commit' = [commit EXCEPT !.stage = "write"]
      /\ UNCHANGED <<running, files, tmps, listing, forgot, acked, tried>>
  BY DEF UpdateMap, disk, ghost
<1>4. old \in Contents
  BY <1>1, <1>2, Sentinels DEF ShapeInv, TypeOK
<1>5. /\ new \in Contents /\ new[k] = commit.off
      /\ \A l \in Keys : l # k => new[l] = old[l]
  BY <1>2, <1>4 DEF Contents
<1>6. /\ commit' \in Committing /\ commit'.g = g /\ commit'.k = k
      /\ commit'.off = commit.off /\ commit'.stage = "write"
  BY <1>2, <1>3 DEF Committing
<1>7. \A l \in Keys : l # k /\ GetOffset(g, l) # None => new[l] = GetOffset(g, l)
  BY <1>5 DEF GetOffset
<1> HIDE DEF g, k, old, new
<1>8. groups' \in [Groups -> Contents \union {Absent}]
  BY <1>1, <1>2, <1>3, <1>5 DEF ShapeInv, TypeOK
<1>9. /\ groups'[g] = new
      /\ \A h \in Groups : h # g => groups'[h] = groups[h]
  BY <1>1, <1>2, <1>3 DEF ShapeInv, TypeOK
<1>10. ShapeInv'
  BY <1>1, <1>3, <1>6, <1>8 DEF ShapeInv, TypeOK
<1>11. CommitInv'
  BY <1>2, <1>3, <1>5, <1>6, <1>9 DEF CommitInv
<1>12. AckedServed'
  <2> SUFFICES ASSUME NEW h \in Groups \ forgot, NEW l \in Keys, acked[h][l] # None
               PROVE  GetOffset(h, l)' \in {acked[h][l]} \union tried[h][l]
    BY <1>3 DEF AckedServed
  <2>1. GetOffset(h, l) \in {acked[h][l]} \union tried[h][l]
    BY <1>2 DEF GroupInv, AckedServed
  <2>2. GetOffset(h, l) # None
    BY <1>1, <2>1, TriedAreOffsets, Sentinels
  <2>3. CASE h # g
    BY <1>9, <2>1, <2>3 DEF GetOffset
  <2>4. CASE h = g
    <3>1. GetOffset(h, l)' = new[l]
      BY <1>5, <1>9, <2>4, Sentinels DEF GetOffset
    <3> QED
      BY <1>2, <1>5, <1>7, <2>1, <2>2, <2>4, <3>1
  <2> QED
    BY <2>3, <2>4
<1> QED
  BY <1>3, <1>10, <1>11, <1>12 DEF GroupInv, AckedOnDisk

\* The temporary file is written; the group's file is not touched.
LEMMA WriteStep ==
  ASSUME GroupInv, WriteTmp PROVE GroupInv'
<1>1. ShapeInv /\ commit.stage = "write"
  BY DEF GroupInv, WriteTmp, At
<1>2. /\ commit # Idle /\ commit \in Committing /\ commit.g \in Groups /\ commit.k \in Keys
  BY <1>1, CommitFields
<1>3. /\ running /\ commit.off \in tried[commit.g][commit.k]
      /\ groups[commit.g] \in Contents /\ groups[commit.g][commit.k] = commit.off
  BY <1>1, <1>2 DEF GroupInv, CommitInv
<1>4. /\ tmps' = [tmps EXCEPT ![commit.g] = groups[commit.g]]
      /\ commit' = [commit EXCEPT !.stage = "rename"]
      /\ UNCHANGED <<running, groups, files, listing, forgot, acked, tried>>
  BY DEF WriteTmp, ghost
<1>5. /\ commit' \in Committing /\ commit'.g = commit.g /\ commit'.k = commit.k
      /\ commit'.off = commit.off
  BY <1>2, <1>4 DEF Committing
<1>6. /\ tmps' \in [Groups -> Contents \union {Absent, Partial}]
      /\ tmps'[commit.g] = groups[commit.g]
  BY <1>1, <1>2, <1>3, <1>4 DEF ShapeInv, TypeOK
<1>7. ShapeInv'
  <2>1. commit'.stage \in {"idle", "map", "write", "rename"}
    BY <1>5 DEF Committing
  <2> QED
    BY <1>1, <1>4, <1>5, <1>6, <2>1 DEF ShapeInv, TypeOK
<1>8. CommitInv'
  BY <1>3, <1>4, <1>5, <1>6 DEF CommitInv
<1> QED
  BY <1>4, <1>7, <1>8 DEF GroupInv, AckedOnDisk, AckedServed, GetOffset

\* CommitOffset returns an error: only a temporary file may have changed.
LEMMA ErrorStep ==
  ASSUME GroupInv, commit' = Idle, commit.stage # "idle",
         UNCHANGED <<running, groups, files, listing, ghost>>,
         tmps' \in {tmps, [tmps EXCEPT ![commit.g] = Partial]}
  PROVE  GroupInv'
<1>1. ShapeInv
  BY DEF GroupInv
<1>2. commit'.stage = "idle"
  BY DEF Idle
<1>3. ShapeInv'
  BY <1>1, <1>2 DEF ShapeInv, TypeOK, ghost
<1> QED
  BY <1>3 DEF GroupInv, CommitInv, AckedOnDisk, AckedServed, GetOffset, ghost

\* The rename puts on disk what the group in memory holds, and the commit is
\* acknowledged.
LEMMA RenameStep ==
  ASSUME GroupInv, Rename PROVE GroupInv'
<1> DEFINE g    == commit.g
           k    == commit.k
           base == IF g \in forgot THEN NoOffsets ELSE acked[g]
           told == [base EXCEPT ![k] = commit.off]
<1>1. ShapeInv /\ commit.stage = "rename"
  BY DEF GroupInv, Rename, At
<1>2. /\ commit # Idle /\ g \in Groups /\ k \in Keys /\ commit.off \in Offsets
  BY <1>1, CommitFields
<1>3. /\ running /\ groups[g] \in Contents /\ groups[g][k] = commit.off
      /\ tmps[g] = groups[g]
  BY <1>1, <1>2 DEF GroupInv, CommitInv
<1>4. /\ files' = [files EXCEPT ![g] = tmps[g]]
      /\ tmps' = [tmps EXCEPT ![g] = Absent]
      /\ acked' = [acked EXCEPT ![g] = told]
      /\ forgot' = forgot \ {g}
      /\ tried' = [tried EXCEPT ![g][k] = {}]
      /\ commit' = Idle
      /\ UNCHANGED <<running, groups, listing>>
  BY DEF Rename, Acknowledge
<1>5. base \in Contents
  BY <1>1, <1>2, Sentinels, TriedAreOffsets
<1>6. /\ told \in Contents /\ told[k] = commit.off
      /\ \A l \in Keys : l # k => told[l] = base[l]
  BY <1>2, <1>5 DEF Contents
<1>7. ASSUME NEW l \in Keys, l # k, told[l] # None
      PROVE  told[l] = acked[g][l] /\ groups[g][l] \in {acked[g][l]} \union tried[g][l]
  <2>1. g \notin forgot /\ told[l] = acked[g][l]
    BY <1>6, <1>7 DEF NoOffsets
  <2>2. GetOffset(g, l) \in {acked[g][l]} \union tried[g][l]
    BY <1>2, <1>3, <1>7, <2>1 DEF GroupInv, AckedServed
  <2> QED
    BY <1>3, <2>1, <2>2, Sentinels DEF GetOffset
<1> HIDE DEF g, k, base, told
<1>8. /\ files' \in [Groups -> Contents \union {Absent}] /\ files'[g] = groups[g]
      /\ \A h \in Groups : h # g => files'[h] = files[h]
  BY <1>1, <1>2, <1>3, <1>4 DEF ShapeInv, TypeOK
<1>9. /\ acked' \in [Groups -> Contents] /\ acked'[g] = told
      /\ \A h \in Groups : h # g => acked'[h] = acked[h]
  BY <1>1, <1>2, <1>4, <1>6 DEF ShapeInv, TypeOK
<1>10. /\ tried' \in [Groups -> [Keys -> SUBSET Offsets]]
       /\ \A h \in Groups, l \in Keys : h # g \/ l # k => tried'[h][l] = tried[h][l]
  BY <1>1, <1>2, <1>4 DEF ShapeInv
<1>11. tmps' \in [Groups -> Contents \union {Absent, Partial}]
  BY <1>1, <1>2, <1>4 DEF ShapeInv, TypeOK
<1>12. ShapeInv'
  <2>1. commit'.stage = "idle"
    BY <1>4 DEF Idle
  <2> QED
    BY <1>1, <1>4, <1>8, <1>9, <1>10, <1>11, <2>1 DEF ShapeInv, TypeOK
<1>13. CommitInv'
  BY <1>4 DEF CommitInv
<1>14. ASSUME NEW l \in Keys, told[l] # None
       PROVE  groups[g][l] \in {told[l]} \union tried'[g][l]
  <2>1. CASE l = k
    BY <1>3, <1>6, <2>1
  <2>2. CASE l # k
    BY <1>2, <1>7, <1>10, <1>14, <2>2
  <2> QED
    BY <2>1, <2>2
<1>15. AckedOnDisk'
  <2> SUFFICES ASSUME NEW h \in Groups, NEW l \in Keys, acked'[h][l] # None
               PROVE  /\ files'[h] \in Contents
                      /\ files'[h][l] \in {acked'[h][l]} \union tried'[h][l]
    BY DEF AckedOnDisk
  <2>1. CASE h = g
    BY <1>3, <1>8, <1>9, <1>14, <2>1
  <2>2. CASE h # g
    BY <1>8, <1>9, <1>10, <2>2 DEF GroupInv, AckedOnDisk
  <2> QED
    BY <2>1, <2>2
<1>16. AckedServed'
  <2> SUFFICES ASSUME NEW h \in Groups \ forgot', NEW l \in Keys, acked'[h][l] # None
               PROVE  GetOffset(h, l) \in {acked'[h][l]} \union tried'[h][l]
    BY <1>4 DEF AckedServed, GetOffset
  <2>1. CASE h = g
    BY <1>3, <1>9, <1>14, <2>1, Sentinels DEF GetOffset
  <2>2. CASE h # g
    BY <1>3, <1>4, <1>9, <1>10, <2>2 DEF GroupInv, AckedServed
  <2> QED
    BY <2>1, <2>2
<1> QED
  BY <1>12, <1>13, <1>15, <1>16 DEF GroupInv

-----------------------------------------------------------------------------
(* The invariant and the theorems.                                          *)

\* The broker has not been started and there are no files.
LEMMA GroupInit == Init => GroupInv
<1> SUFFICES ASSUME Init PROVE GroupInv
  OBVIOUS
<1>1. ShapeInv
  BY Sentinels DEF Init, ShapeInv, TypeOK, Idle
<1>2. \A g \in Groups, k \in Keys : acked[g][k] = None
  BY DEF Init, NoOffsets
<1> QED
  BY <1>1, <1>2 DEF Init, GroupInv, CommitInv, AckedOnDisk, AckedServed

\* Every step keeps the invariant.
LEMMA GroupStep == GroupInv /\ [Next]_vars => GroupInv'
<1> SUFFICES ASSUME GroupInv, [Next]_vars PROVE GroupInv'
  OBVIOUS
<1>1. CASE Start
  BY <1>1, StartStep
<1>2. CASE Stop \/ MapFault
  BY <1>2, DownStep DEF Stop, MapFault, disk
<1>3. CASE Crash
  <2>1. commit.stage = "write" => commit # Idle
    BY DEF Idle
  <2> QED
    BY <1>3, <2>1, DownStep DEF Crash, At
<1>4. ASSUME NEW g \in Groups, NEW k \in Keys, NEW off \in Offsets, CommitOffset(g, k, off)
      PROVE  GroupInv'
  BY <1>4, CallStep
<1>5. CASE UpdateMap
  BY <1>5, MapStep
<1>6. CASE WriteTmp
  BY <1>6, WriteStep
<1>7. CASE WriteTmpFails \/ RenameFails
  BY <1>7, ErrorStep DEF WriteTmpFails, RenameFails, At, disk
<1>8. CASE Rename
  BY <1>8, RenameStep
<1>9. CASE ListGroups \/ ListingDone \/ UNCHANGED vars
  <2>1. /\ UNCHANGED <<running, groups, files, tmps, commit, forgot, acked, tried>>
        /\ listing' \subseteq Groups
    BY <1>9 DEF ListGroups, ListingDone, vars, disk, ghost, GroupInv, ShapeInv, TypeOK
  <2>2. ShapeInv'
    BY <2>1 DEF GroupInv, ShapeInv, TypeOK
  <2> QED
    BY <2>1, <2>2 DEF GroupInv, CommitInv, AckedOnDisk, AckedServed, GetOffset
<1> QED
  BY <1>1, <1>2, <1>3, <1>4, <1>5, <1>6, <1>7, <1>8, <1>9 DEF Next

\* The invariant behind the theorems below, under every failure
\* (group.go:41-119).
THEOREM GroupInvariant == Spec => []GroupInv
  BY GroupInit, GroupStep, PTL DEF Spec

\* The map, the files and the temporary files have their shapes at all times.
THEOREM GroupTypes == Spec => []TypeOK
<1>1. GroupInv => TypeOK
  BY DEF GroupInv, ShapeInv
<1> QED
  BY <1>1, GroupInvariant, PTL

\* An offset whose commit was acknowledged stays in the group's file until a
\* later commit for the partition is tried, whatever fails or crashes.
THEOREM CommitsAreDurable == Spec => []AckedOnDisk
<1>1. GroupInv => AckedOnDisk
  BY DEF GroupInv
<1> QED
  BY <1>1, GroupInvariant, PTL

\* For as long it is what FETCH_OFFSET answers, unless the file could not be
\* read at start.
THEOREM CommitsAreServed == Spec => []AckedServed
<1>1. GroupInv => AckedServed
  BY DEF GroupInv
<1> QED
  BY <1>1, GroupInvariant, PTL
=============================================================================
