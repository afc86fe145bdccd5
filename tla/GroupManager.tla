---------------------------- MODULE GroupManager ----------------------------
(***************************************************************************)
(* The committed offsets of the consumer groups (broker/consumer/group.go):*)
(* a map in memory under GroupManager.mu and one JSON file per group,      *)
(* replaced by writing a temporary file and renaming it.  The HTTP API     *)
(* walks the map of a group it got from ListGroups without the lock        *)
(* (broker/api/http.go).                                                   *)
(*                                                                         *)
(* The offsets of a group are a function from topic-partitions to offsets, *)
(* None where nothing was committed.                                       *)
(***************************************************************************)
EXTENDS Integers, FiniteSets

CONSTANTS
  Groups,
  Keys,        \* topic and partition
  Offsets,
  Faults,      \* the failures that may happen, a subset of FaultKinds
  Absent,      \* no such file, no such group
  Partial,     \* what a file that is not valid JSON holds
  MaxCommits   \* bound: the number of CommitOffset calls in a behaviour

\* crash: the process dies.  write: os.WriteFile fails.  rename: os.Rename
\* fails.  read: os.ReadFile of a group's file fails at start.
FaultKinds == {"crash", "write", "rename", "read"}

None == -1

ASSUME GroupsAssumption ==
  /\ Offsets \subseteq Nat
  /\ Faults \subseteq FaultKinds
  /\ {Absent, Partial} \intersect [Keys -> Offsets \union {None}] = {}
  /\ Absent # Partial
  /\ MaxCommits \in Nat

VARIABLES
  running,   \* the broker is up
  groups,    \* GroupManager.groups
  files,     \* what <group>.json holds
  tmps,      \* what <group>.json.tmp holds
  commit,    \* the CommitOffset that holds the lock, and how far it is
  listing,   \* groups whose maps handleConsumers is walking
  forgot,    \* history: groups whose file was there and could not be read when
             \* the broker started, and that no commit has replaced since
  commits,   \* the number of CommitOffset calls so far
  acked,     \* per group and key, the offset last committed without an error,
             \* until a commit replaces the file of a forgotten group
  tried      \* per group and key, the offsets tried since

vars == <<running, groups, files, tmps, commit, listing, forgot, commits, acked, tried>>
disk == <<files, tmps>>
ghost == <<forgot, commits, acked, tried>>

Contents == [Keys -> Offsets \union {None}]

NoOffsets == [k \in Keys |-> None]

Idle == [stage |-> "idle"]

\* The running CommitOffset is at this stage.
At(stage) == commit.stage = stage

-----------------------------------------------------------------------------

\* What NewGroupManager finds in a group's file; a file that cannot be parsed
\* is passed over, and names that end in .tmp are not looked at.
Loaded(g) == IF files[g] \in Contents THEN files[g] ELSE Absent

\* NewGroupManager.  A file that cannot be read is passed over too.
Start ==
  /\ ~running
  /\ running' = TRUE
  /\ \E unread \in SUBSET Groups :
       /\ unread = {} \/ "read" \in Faults
       /\ groups' = [g \in Groups |-> IF g \in unread THEN Absent ELSE Loaded(g)]
       /\ forgot' = {g \in unread : files[g] # Absent}
  /\ UNCHANGED <<disk, commit, listing, commits, acked, tried>>

Down ==
  /\ running' = FALSE
  /\ groups' = [g \in Groups |-> Absent]
  /\ commit' = Idle
  /\ listing' = {}

\* The broker exits after its handlers have returned; it saves nothing.
Stop ==
  /\ running
  /\ At("idle")
  /\ listing = {}
  /\ Down
  /\ UNCHANGED <<disk, ghost>>

\* The process dies; a temporary file may be half written.
Crash ==
  /\ "crash" \in Faults
  /\ running
  /\ Down
  /\ IF At("write")
     THEN tmps' \in {tmps, [tmps EXCEPT ![commit.g] = Partial]}
     ELSE UNCHANGED tmps
  /\ UNCHANGED <<files, ghost>>

-----------------------------------------------------------------------------
(* CommitOffset, under the exclusive lock.                                  *)

CommitOffset(g, k, off) ==
  /\ running
  /\ At("idle")
  /\ commits < MaxCommits
  /\ commits' = commits + 1
  /\ commit' = [stage |-> "map", g |-> g, k |-> k, off |-> off]
  /\ tried' = [tried EXCEPT ![g][k] = @ \union {off}]
  /\ UNCHANGED <<running, groups, disk, listing, forgot, acked>>

\* Mutant: every commit starts from an empty group.
UpdateFreshMap ==
  /\ At("map")
  /\ groups' = [groups EXCEPT ![commit.g] =
                  [NoOffsets EXCEPT ![commit.k] = commit.off]]
  /\ commit' = [commit EXCEPT !.stage = "write"]
  /\ UNCHANGED <<running, disk, listing, ghost>>

\* The offset goes into the map before anything is written.
UpdateMap ==
  /\ At("map")
  /\ LET old == IF groups[commit.g] = Absent THEN NoOffsets ELSE groups[commit.g]
     IN  groups' = [groups EXCEPT ![commit.g] =
                      [old EXCEPT ![commit.k] = commit.off]]
  /\ commit' = [commit EXCEPT !.stage = "write"]
  /\ UNCHANGED <<running, disk, listing, ghost>>

\* The Go runtime stops the process when it sees a map written while it is
\* walked; it need not see it.
MapFault ==
  /\ At("map")
  /\ commit.g \in listing
  /\ Down
  /\ UNCHANGED <<disk, ghost>>

\* os.WriteFile of the whole group to the temporary file.
WriteTmp ==
  /\ At("write")
  /\ tmps' = [tmps EXCEPT ![commit.g] = groups[commit.g]]
  /\ commit' = [commit EXCEPT !.stage = "rename"]
  /\ UNCHANGED <<running, groups, files, listing, ghost>>

\* Mutant: the error of os.WriteFile is not looked at.
WriteTmpFailureIgnored ==
  /\ "write" \in Faults
  /\ At("write")
  /\ tmps' \in {tmps, [tmps EXCEPT ![commit.g] = Partial]}
  /\ commit' = [commit EXCEPT !.stage = "rename"]
  /\ UNCHANGED <<running, groups, files, listing, ghost>>

WriteTmpFails ==
  /\ "write" \in Faults
  /\ At("write")
  /\ tmps' \in {tmps, [tmps EXCEPT ![commit.g] = Partial]}
  /\ commit' = Idle
  /\ UNCHANGED <<running, groups, files, listing, ghost>>

\* The other offsets of a forgotten group are not in the new file.
Acknowledge ==
  /\ acked' = [acked EXCEPT ![commit.g] =
                 [(IF commit.g \in forgot THEN NoOffsets ELSE @)
                    EXCEPT ![commit.k] = commit.off]]
  /\ forgot' = forgot \ {commit.g}
  /\ tried' = [tried EXCEPT ![commit.g][commit.k] = {}]
  /\ commit' = Idle

\* Mutant: only the temporary file is written.
NoRename ==
  /\ At("rename")
  /\ Acknowledge
  /\ UNCHANGED <<running, groups, disk, listing, commits>>

\* os.Rename, and CommitOffset returns without an error.
Rename ==
  /\ At("rename")
  /\ files' = [files EXCEPT ![commit.g] = tmps[commit.g]]
  /\ tmps' = [tmps EXCEPT ![commit.g] = Absent]
  /\ Acknowledge
  /\ UNCHANGED <<running, groups, listing, commits>>

RenameFails ==
  /\ "rename" \in Faults
  /\ At("rename")
  /\ commit' = Idle
  /\ UNCHANGED <<running, groups, disk, listing, ghost>>

-----------------------------------------------------------------------------
(* handleConsumers.                                                         *)

\* ListGroups returns pointers to the groups and gives the lock back.
ListGroups ==
  /\ running
  /\ At("idle")
  /\ listing = {}
  /\ listing' = {g \in Groups : groups[g] # Absent}
  /\ listing' # {}
  /\ UNCHANGED <<running, groups, disk, commit, ghost>>

\* The last map has been walked.
ListingDone ==
  /\ listing # {}
  /\ listing' = {}
  /\ UNCHANGED <<running, groups, disk, commit, ghost>>

\* GetOffset, under the shared lock; None when nothing was committed.
GetOffset(g, k) == IF groups[g] = Absent THEN None ELSE groups[g][k]

-----------------------------------------------------------------------------

Init ==
  /\ running = FALSE
  /\ groups = [g \in Groups |-> Absent]
  /\ files = [g \in Groups |-> Absent]
  /\ tmps = [g \in Groups |-> Absent]
  /\ commit = Idle
  /\ listing = {}
  /\ forgot = {}
  /\ commits = 0
  /\ acked = [g \in Groups |-> NoOffsets]
  /\ tried = [g \in Groups |-> [k \in Keys |-> {}]]

Next ==
  \/ Start \/ Stop \/ Crash
  \/ \E g \in Groups, k \in Keys, off \in Offsets : CommitOffset(g, k, off)
  \/ UpdateMap \/ MapFault \/ WriteTmp \/ WriteTmpFails \/ Rename \/ RenameFails
  \/ ListGroups \/ ListingDone

Spec == Init /\ [][Next]_vars

-----------------------------------------------------------------------------

\* Shapes of the variables.
TypeOK ==
  /\ running \in BOOLEAN
  /\ groups \in [Groups -> Contents \union {Absent}]
  /\ files \in [Groups -> Contents \union {Absent}]
  /\ tmps \in [Groups -> Contents \union {Absent, Partial}]
  /\ commit.stage \in {"idle", "map", "write", "rename"}
  /\ listing \subseteq Groups
  /\ acked \in [Groups -> Contents]

\* An offset that was committed without an error stays in the group's file
\* until a later commit for the same partition is tried: through crashes at
\* any point of later commits, restarts and failed writes, and whatever other
\* partitions commit (group.go:98-119).  A file that cannot be read when the
\* broker starts is not damaged by that; the next commit of its group, which
\* knows none of its offsets, replaces it (group.go:48-51).
AckedOnDisk ==
  \A g \in Groups, k \in Keys :
    acked[g][k] # None =>
      files[g] \in Contents /\ files[g][k] \in {acked[g][k]} \union tried[g][k]

\* For as long, it is what FETCH_OFFSET answers, unless the broker could not
\* read the group's file when it started (group.go:122-134).
AckedServed ==
  \A g \in Groups \ forgot, k \in Keys :
    running /\ acked[g][k] # None =>
      GetOffset(g, k) \in {acked[g][k]} \union tried[g][k]
=============================================================================
