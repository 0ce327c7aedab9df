----------------------------- MODULE FileTable -----------------------------
(***************************************************************************)
(* The state the file service works on and the statements it issues on it: *)
(* the `files` table and the `storage_used` column of `users`              *)
(* (internal/store/file.go, user.go, migrations/003), and the blobs under  *)
(* the storage root (internal/storage/storage.go).                         *)
(*                                                                         *)
(* A blob's content stands for its SHA-256, so `hash` and the content on   *)
(* disk are compared directly.  Sizes are a function of the content.       *)
(***************************************************************************)
EXTENDS Integers, FiniteSets

CONSTANTS
    Users,      \* users.id
    Ids,        \* files.id: AUTO_INCREMENT, so an id is never used twice
    Root,       \* parent_id IS NULL
    Names,      \* file names, extension included
    Contents,   \* contents of files, identified with their hash
    Size,       \* the size of a content
    MaxSize,    \* the largest of them
    Keys,       \* storage keys: random, so a key is never generated twice
    NoBlob,     \* the key and hash of a directory; a key with nothing on disk yet
    Removed     \* the key of a blob that was deleted

ASSUME TableAssumption ==
    /\ IsFiniteSet(Ids)
    /\ Root \notin Ids
    /\ MaxSize \in Nat
    /\ Size \in [Contents -> 0..MaxSize]
    /\ NoBlob \notin Keys /\ NoBlob \notin Contents
    /\ Removed \notin Contents /\ Removed # NoBlob

VARIABLES
    rows,       \* the files table
    disk,       \* the blob each key names
    used        \* users.storage_used

tableVars == <<rows, disk, used>>

-----------------------------------------------------------------------------
(* Rows.  An id nobody inserted yet is "unused"; a hard-deleted one is     *)
(* "purged" and has no other column left.                                  *)

Parents == Ids \cup {Root}

NoRow == [st : {"unused", "purged"}]

RowOf(hashes, keys) ==
    [st : {"live", "deleted"}, owner : Users, parent : Parents, name : Names,
     hash : hashes, key : keys]

\* A directory has neither hash nor key (is_dir = 1), a file has both.
Row == RowOf({NoBlob}, {NoBlob}) \cup RowOf(Contents, Keys)

TableTypeOK ==
    /\ rows \in [Ids -> NoRow \cup Row]
    /\ disk \in [Keys -> Contents \cup {NoBlob, Removed}]
    /\ used \in [Users -> Nat]

TableInit ==
    /\ rows = [i \in Ids |-> [st |-> "unused"]]
    /\ disk = [k \in Keys |-> NoBlob]
    /\ used = [u \in Users |-> 0]

Exists(i)  == rows[i].st \in {"live", "deleted"}
Live(i)    == rows[i].st = "live"
Deleted(i) == rows[i].st = "deleted"

IsDir(i) == rows[i].key = NoBlob

\* The foreign key of files.parent_id (migrations/003): NULL or an existing row.
ValidParent(p) == p # Root => Exists(p)

-----------------------------------------------------------------------------
(* Queries *)

\* FileByID(i) found a row of user u, deleted or not.
Owned(i, u) == Exists(i) /\ rows[i].owner = u

\* FileNameExists: a live sibling of that name.
FileNameExists(p, u, n) ==
    \E i \in Ids : Live(i) /\ rows[i].owner = u /\ rows[i].parent = p /\ rows[i].name = n

\* FileByName (LIMIT 1): one of them.
FilesByName(p, u, n) ==
    {i \in Ids : Live(i) /\ rows[i].owner = u /\ rows[i].parent = p /\ rows[i].name = n}

\* Mutant: the condition on file_hash is dropped.
FilesByNoHash(h) == {i \in Ids : Live(i) /\ ~IsDir(i)}

\* FileByHash (LIMIT 1): a live file of ANY user with that content.
FilesByHash(h) == {i \in Ids : Live(i) /\ ~IsDir(i) /\ rows[i].hash = h}

\* Mutant: rows in the recycle bin are not counted.
CountLive(k) == Cardinality({i \in Ids : Live(i) /\ rows[i].key = k})

CountByStorageKey(k) == Cardinality({i \in Ids : Exists(i) /\ rows[i].key = k})

Children(S) == {i \in Ids : Exists(i) /\ rows[i].parent \in S}

\* The recursive CTE of DescendantIDs walks rows of every state: what it finds
\* is the least set with the children of r and of its own members ...
Below(r) ==
    LET closed == {S \in SUBSET Ids : Children(S \cup {r}) \subseteq S}
    IN  {j \in Ids : \A S \in closed : j \in S}

\* ... and never ends on a cycle: MySQL stops it at cte_max_recursion_depth
\* with an error.  Every row has one parent, so r reaches a cycle going down
\* only if it lies on it.
CycleAt(r) == r \in Below(r)

\* Mutant: one level instead of the recursive walk.
OneLevelIDs(r, deleted) ==
    {i \in Children({r}) : IF deleted THEN Deleted(i) ELSE Live(i)}

\* The filter is applied to what the walk found.
DescendantIDs(r, deleted) ==
    LET below == Below(r)
    IN  {i \in Ids : i \in below /\ IF deleted THEN Deleted(i) ELSE Live(i)}

-----------------------------------------------------------------------------
(* Sizes.  The bytes of a set of rows are counted as pairs <<row, byte>>,  *)
(* which is the sum of their `size` columns and needs no recursion.        *)

SizeOf(i) == IF ~Exists(i) \/ IsDir(i) THEN 0 ELSE Size[rows[i].hash]

Bytes(S) == Cardinality({p \in S \X (1..MaxSize) : p[2] <= SizeOf(p[1])})

LiveOf(u) == {i \in Ids : Live(i) /\ rows[i].owner = u}

\* SumActiveStorage
SumActiveStorage(u) == Bytes(LiveOf(u))

-----------------------------------------------------------------------------
(* Statements.  Each operator is the new value of the table.               *)

\* UPDATE ... WHERE id IN S: ids without a row match nothing.
Marked(S, st) ==
    [i \in Ids |-> IF i \in S /\ Exists(i) THEN [rows[i] EXCEPT !.st = st] ELSE rows[i]]

\* BatchSoftDelete: no condition on is_deleted.
SoftDeleted(S) == Marked(S, "deleted")

\* RestoreFiles: WHERE is_deleted = 1; a live row stays live.
\* UpdateFileParentID(root, NULL) follows for the rows of `lifted`.
Restored(S, lifted) ==
    [i \in Ids |->
        IF i \in S /\ Exists(i)
        THEN [rows[i] EXCEPT !.st = "live", !.parent = IF i \in lifted THEN Root ELSE @]
        ELSE rows[i]]

\* Mutant: ids are handed out again.
Recycled(S) ==
    [i \in Ids |-> IF i \in S /\ Exists(i) THEN [st |-> "unused"] ELSE rows[i]]

\* HardDeleteFiles: no condition on is_deleted and foreign keys unchecked.
HardDeleted(S) ==
    [i \in Ids |-> IF i \in S /\ Exists(i) THEN [st |-> "purged"] ELSE rows[i]]

Moved(S, p) ==
    [i \in Ids |-> IF i \in S /\ Exists(i) THEN [rows[i] EXCEPT !.parent = p] ELSE rows[i]]

Renamed(i, n) ==
    [rows EXCEPT ![i] = IF Exists(i) THEN [@ EXCEPT !.name = n] ELSE @]

NewRow(u, p, n, h, k) ==
    [st |-> "live", owner |-> u, parent |-> p, name |-> n, hash |-> h, key |-> k]

\* CreateFile after the soft delete of `old` in the same transaction.
Inserted(old, i, row) == [SoftDeleted(old) EXCEPT ![i] = row]

\* GREATEST(storage_used + delta, 0)
Clamp(n) == IF n >= 0 THEN n ELSE 0

Charged(u, delta) == [used EXCEPT ![u] = Clamp(@ + delta)]
=============================================================================
