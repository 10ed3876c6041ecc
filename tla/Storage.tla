------------------------------ MODULE Storage ------------------------------
(***************************************************************************)
(* What an instance keeps on disk: the filesystems under data_directory,   *)
(* sys_wal and the tablespaces, and the archiver.  The disks are looked at *)
(* without the server, by a statfs of directories whose names came over    *)
(* the connection (probe.InstDisk, probe.SpaceDisk): what that shows       *)
(* depends on the host kbdiag runs on.  rule.Space and rule.Archive judge. *)
(*                                                                         *)
(* Abstracted: free space is counted in WAL segments, none or one; sizes   *)
(* of databases, tablespaces and WAL are shown only.                       *)
(***************************************************************************)
EXTENDS Collected

CONSTANTS
  Filesystems,      \* of the database's host
  OtherFilesystem,  \* of another host that kbdiag may run on
  Tablespaces,      \* with a location of their own
  Mirrors           \* bound: may the other host have the same directories?

Nowhere == 0

ASSUME StorageAssumption ==
  /\ Filesystems # {} /\ {OtherFilesystem, Nowhere} \cap Filesystems = {}
  /\ OtherFilesystem # Nowhere
  /\ {"data", "wal"} \cap Tablespaces = {}
  /\ Mirrors \subseteq BOOLEAN

VARIABLES
  where,                \* the filesystem of each directory, Nowhere if not there
  free,                 \* its free space
  blocked,              \* directories that kbdiag's account may not reach
  spaces,               \* the tablespaces of the instance
  place,                \* how the connection reaches the server: conn.Config
  host,                 \* the host kbdiag runs on
  mirrored,             \* the other host has the same directories
  mode, command,        \* archive_mode, and whether archive_command is given
  attempt,              \* the archiver's last attempt since the statistics reset
  archivedAt, failedAt  \* last_archived_time and last_failed_time, Never if NULL

storage == <<where, free, blocked, spaces, place, host, mirrored, mode, command, attempt,
             archivedAt, failedAt>>

Never == 0
Segment == 1      \* wal_segment_size
Directories == {"data", "wal"} \cup Tablespaces

StorageOK ==
  /\ where \in [Directories -> Filesystems \cup {Nowhere}]
  /\ free \in [Filesystems \cup {OtherFilesystem} -> 0..Segment]
  /\ blocked \subseteq Directories /\ spaces \subseteq Tablespaces
  /\ place \in {"socket", "loopback", "remote"} /\ host \in {"server", "other"}
  /\ mirrored \in BOOLEAN
  /\ mode \in {"off", "on", "always"} /\ command \in BOOLEAN
  /\ attempt \in {"none", "archived", "failed"}
  /\ archivedAt \in Nat /\ failedAt \in Nat

-----------------------------------------------------------------------------
(* What is wrong with it *)

\* No segment more can be created there, or nothing more be written.
DiskFull(fs) == fs \in {where["data"], where["wal"]} /\ free[fs] < Segment

Archiving(recovering) == command /\ mode \in (IF recovering THEN {"always"} ELSE {"on", "always"})
ArchiveFailing(recovering) == Archiving(recovering) /\ attempt = "failed"

-----------------------------------------------------------------------------
(* The server and its disks *)

Reached ==
  /\ place \in {"socket", "loopback", "remote"}
  /\ host \in (CASE place = "socket" -> {"server"}
                 [] place = "loopback" -> {"server", "other"}   \* a forwarded port
                 [] OTHER -> {"other"})
  /\ mirrored \in (IF host = "other" THEN Mirrors ELSE {FALSE})

\* Filesystems are interchangeable.
AnyFilesystem == CHOOSE fs \in Filesystems : TRUE
PlainDisks ==
  /\ where = [d \in Directories |-> AnyFilesystem]
  /\ free = [fs \in Filesystems \cup {OtherFilesystem} |-> Segment]
  /\ blocked = {} /\ spaces = {}

\* Disks that kbdiag cannot look at start without trouble.
InitDisks ==
  /\ Reached
  /\ IF host = "other" /\ ~mirrored THEN PlainDisks
     ELSE /\ where \in [Directories -> Filesystems \cup {Nowhere}]
          /\ where["data"] = AnyFilesystem /\ where["wal"] # Nowhere
          /\ free \in [Filesystems \cup {OtherFilesystem} -> 0..Segment]
          /\ blocked \in SUBSET {"data", "wal"}
          /\ spaces \in SUBSET Tablespaces
          /\ ~mirrored => free[OtherFilesystem] = Segment

InitArchiver ==
  /\ mode \in {"off", "on", "always"} /\ command \in BOOLEAN
  /\ archivedAt \in {Never, 1, 3} /\ failedAt \in {Never, 2}
  /\ attempt = (CASE archivedAt = Never /\ failedAt = Never -> "none"
                  [] archivedAt > failedAt -> "archived"
                  [] OTHER -> "failed")

disks == <<where, free, blocked, spaces, place, host, mirrored>>
archiver == <<mode, command, attempt, archivedAt, failedAt>>

FillOrClear(fs) ==
  /\ free' = [free EXCEPT ![fs] = Segment - @]
  /\ UNCHANGED <<where, blocked, spaces, place, host, mirrored, archiver>>

\* A tablespace's disk is unmounted or comes back.
Mount(t) ==
  /\ \E fs \in (Filesystems \cup {Nowhere}) \ {where[t]} : where' = [where EXCEPT ![t] = fs]
  /\ UNCHANGED <<free, blocked, spaces, place, host, mirrored, archiver>>

CreateOrDropTablespace(t) ==
  /\ spaces' = IF t \in spaces THEN spaces \ {t} ELSE spaces \cup {t}
  /\ UNCHANGED <<where, free, blocked, place, host, mirrored, archiver>>

Archive(recovering) ==
  /\ Archiving(recovering)
  /\ LET now == 1 + IF archivedAt > failedAt THEN archivedAt ELSE failedAt
     IN \/ attempt' = "archived" /\ archivedAt' = now /\ UNCHANGED failedAt
        \/ attempt' = "failed" /\ failedAt' = now /\ UNCHANGED archivedAt
  /\ UNCHANGED <<disks, mode, command>>

\* archive_mode changes with a restart only.
ChangeCommand ==
  /\ command' = ~command
  /\ UNCHANGED <<disks, mode, attempt, archivedAt, failedAt>>

ResetStatistics ==
  /\ attempt' = "none" /\ archivedAt' = Never /\ failedAt' = Never
  /\ UNCHANGED <<disks, mode, command>>

-----------------------------------------------------------------------------
(* What kbdiag finds *)

\* The filesystem a statfs of this path meets, Nowhere if it fails.
Met(d) == CASE host = "server" -> IF d \in blocked THEN Nowhere ELSE where[d]
            [] host = "other" -> IF mirrored THEN OtherFilesystem ELSE Nowhere
Statfs(d) == {[dir |-> d, fs |-> Met(d), avail |-> free[Met(d)]]}

\* InstDisk, and the start of SpaceDisk: when may a statfs be asked at all?
StatData(info) ==
  CASE place = "remote" -> Missing("not_applicable")
    [] place # "remote" /\ info.status # "ok" -> Missing("skipped")
    [] place # "remote" /\ info.status = "ok" /\ ~\E i \in info.rows : i.dir ->
         Missing("skipped")
    [] OTHER -> IF Met("data") # Nowhere
                  THEN Ok(Statfs("data"))
                  ELSE Missing(IF place = "socket" THEN "error" ELSE "not_applicable")

\* SpaceDisk: without the WAL directory nothing is kept.
StatWAL(disk) ==
  IF disk.status # "ok" THEN disk
  ELSE IF Met("wal") = Nowhere THEN Missing("error")
  ELSE [disk EXCEPT !.rows = @ \cup Statfs("wal")]

\* Mutant: one that cannot be reached takes the others along.
StatTablespacesAllOrNone(disk, listed) ==
  IF disk.status # "ok" THEN disk
  ELSE IF \E t \in listed : Met(t) = Nowhere THEN Missing("error")
  ELSE [disk EXCEPT !.rows = @ \cup UNION {Statfs(t) : t \in listed}]

\* SpaceDisk: a tablespace that cannot be reached leaves the rows of the others.
StatTablespaces(disk, listed) ==
  LET bad == {t \in listed : Met(t) = Nowhere}
  IN IF disk.status # "ok" THEN disk
     ELSE [status |-> IF bad # {} THEN "error" ELSE "ok",
           rows |-> disk.rows \cup UNION {Statfs(t) : t \in listed \ bad}]

\* sys_default and sys_global are inside data_directory and have no location;
\* a size that the account may not read is NULL.
Inside == "inside"
SpaceTablespaces == {{[dir |-> t, redacted |-> FALSE] : t \in spaces} \cup
                       {[dir |-> Inside, redacted |-> x]} : x \in BOOLEAN}
Located(tablespaces) == {t.dir : t \in tablespaces.rows} \ {Inside}
SpaceWAL == {[segment |-> Segment]}
ArchiveStatus ==
  {[mode |-> mode, command |-> command, archived |-> archivedAt, failed |-> failedAt]}

-----------------------------------------------------------------------------
(* rule.Space and rule.Archive *)

\* A filesystem under both directories is judged once, by the row of the first.
Judged(disk) ==
  {r \in disk.rows : \/ r.dir = "data"
                     \/ r.dir = "wal" /\ ~\E q \in disk.rows : q.dir = "data" /\ q.fs = r.fs}

FullRows(disk, wal) ==
  IF Judgeable(wal.status)
    THEN {r \in Judged(disk) : \E w \in wal.rows : w.segment > 0 /\ r.avail < w.segment}
    ELSE {}

Space(databases, tablespaces, wal, disk) ==
  LET hidden == \/ \E r \in databases.rows \cup tablespaces.rows : r.redacted
                \/ disk.status = "not_applicable"
      shown == Display(hidden, {databases.status, tablespaces.status, wal.status, disk.status})
  IN IF FullRows(disk, wal) = {} THEN shown ELSE Result({"FAIL"}, FALSE)

\* The last attempt failed: the last failure is after the last success.
Failing(a) == a.failed # Never /\ (a.archived = Never \/ a.failed > a.archived)

ArchiveRule(status, role) ==
  IF ~Judgeable(status.status) THEN Result({}, BlindSpot(status.status))
  ELSE Result(IF \E a \in status.rows :
                   /\ a.mode # "off" /\ ~(role = "standby" /\ a.mode # "always")
                   /\ a.command /\ Failing(a)
              THEN {"WARN"} ELSE {}, FALSE)
=============================================================================
