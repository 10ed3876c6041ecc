# A verification project for kbdiag

kbdiag looks at a live KingbaseES instance over one read-only connection, runs a
few queries one after another, and ends with an exit code that monitoring acts
on. What makes it hard to get right is not its own state, which is small, but
that the instance goes on living between two queries, that any query may fail
or come back masked, and that all this must end in one honest verdict: never OK
for what was not seen, never an alarm for what never was.

The modules here model that: each command as a process that reads a moving
world piece by piece. TLC checks small instances; TLAPS proves, for every value
of the constants, that the exit codes of the engine, of `txn`, `locks`, `session`,
`cluster`, `seq` and `table`, and (unless another host has the same directories)
of the seven commands of `Node` are honest; and every other invariant and action
property that a passing run checks.

## The system

| Part | State it keeps | Operations | Hard because |
|---|---|---|---|
| `cmd/kbdiag/main.go` | flags, exit code | `newRoot`, `diagnose`, `write`, one constructor per command fixing the probes and their order | order of the probes; every error path needs its own exit code |
| `internal/conn` | the connection | `Open`, `Identify` | the role is read once and used to the end; refusals and network failures must be told apart |
| `internal/probe` | none; one query per probe | `collect`, `collectArgs`, `classify`, gates by role, `statfs` probes | a failed query must not look like an empty one; switches read before the query |
| `internal/rule` | none | `collected`, `verdictOf`, `Merge`, `Display`, one rule per command | a blind spot must survive early returns and merging |
| `internal/scenario`, `internal/report` | the report | verdict, `ExitCode`, what is listed | the oldest xid, the blockers and what they hold are computed here from rows read at different moments |
| the instance (external) | sessions, locks, transactions, replication, files | everything users do | changes between two probes |
| the repmgr cluster (external) | `repmgr.nodes`, walsenders, `repmgr.conf` | failover, rejoin, degradation | its metadata lags behind what it describes |

The 21 commands share `main`, `conn`, the probe engine and the verdict; they
differ in the probes they run, in their order, and in what the rule reads.
`session`, `table` and `cluster` choose what to run by what an earlier probe
found. Nothing is persisted and nothing runs concurrently inside kbdiag: there
is no crash recovery, and the concurrency is all with the server.

What makes each part correct:

- the engine: exit 0 only when everything the verdict depends on was seen and
  nothing the command reports lasted through the run; an alarm only for what
  was true; one exit code, always;
- `txn`: the oldest xid holding back the vacuum horizon and its holders are
  named rightly although sessions and prepared transactions are read by two
  queries, and xids wrap;
- `locks`, `session`: who stands in a waiter's way is shown with the lock that
  does, although the lock table and the blockers are read at two moments;
- `cluster`: the right database is asked, and repmgr's picture is compared with
  the instance's without accusing it of what was never true;
- `seq`: what is counted as left is what nextval will hand out, and the advice
  for an exhausted sequence is one that helps;
- `status`, `repl`, `slots`: what the server calls full, cut off, stuck, short of
  synchronous standbys or unused is what the rules call so, and the setting of
  the synchronous standbys is read as the server reads it;
- `space`, `archive`: the disks are those of the server, one directory that
  cannot be reached hides no other, a filesystem is judged once, and archiving
  fails when its last attempt did;
- `freeze`, `vacuum`: the limits the server stops at are judged whether or not
  its settings could be read, a table is past its threshold when it is for the
  server, and a switch read twice is not believed more than once;
- `table`: a name is resolved once, and all that is shown and judged is of that
  one relation, though it may be renamed, dropped or locked meanwhile.

## Modules

| Module | Models | State and actions against the code |
|---|---|---|
| `Verdict` | statuses, `classify`, `collected`, `verdictOf`, `Merge`, `Display`, `ExitCode` | operators only; a finding is its level |
| `HonestAnswer` | the abstract promise of an exit code | `answer`, `lasting`, `appeared`, `blinded`; the other modules implement it |
| `Diagnosis` | one run of a command, from the flags to the exit code | `CheckFlags`, `Open`, `Identify`, `Collect` (one probe: gated off, rows, failure, statfs), `Judge`, `Render`, and `Flip`, the instance |
| `Commands` | what 18 of the commands run and what their rules read | the constants of `Diagnosis`: a `Plan` and a `Rule` per command |
| `Txn` | `kbdiag txn` and the server's transactions | the two probes in the order of `newTxn`, both rules, `writeOldest` |
| `LockTable` | the server's lock manager | external: grant, queue, block, hand over to a prepared transaction; the queue is a set of requests and who is ahead of whom, and every request that nothing blocks is granted at once |
| `Locks` | `kbdiag locks` and `kbdiag session` | `SessionActivity`, `ListLocks` and `AskBlockers` (the two moments of `lockListSQL`), `Report`, what is listed |
| `Repmgr` | a repmgr cluster as one instance sees it | external: leave, return, mark, follow, promote, rejoin, degrade |
| `Cluster` | `kbdiag cluster` | `TryEsrep`, `Open`, `Identify`, the four probes (`cluster.sync` in its two halves, query and file), `Report` |
| `Seq` | `kbdiag seq` and the server's sequences | `Identify`, `ReadRow` (the definition from the snapshot, the value live), `QueryFails`, `Report`; external: draw, use a cached value, set, alter, promote |
| `Table` | `kbdiag table <name>` and the relations of a database | the seven queries of `newTable` as `Probe`, two of them `table.stats`, each bound to the oid of `table.info`; external: create, drop, rename, lock, age, reconfigure |
| `Collected` | what a probe hands to a rule | operators only: rows with ok, or a status |
| `SyncNames` | `synchronous_standby_names` | the texts the server accepts and how it chooses by them (external); `parseSyncNames` over tokens |
| `Replication` | a node in a chain of replication, its connections and slots | external: receive, pause, promote, stream, reload, connect; the probes inst.*, repl.*, slot.list; `Status`, `Repl`, `Slots` with `upstream`, `connections`, `syncShort` |
| `Storage` | the disks and the archiver of the database's host | external: fill, mount, create tablespaces, archive, reset; the statfs calls of `InstDisk` and `SpaceDisk` one by one, on whichever host kbdiag runs; `Space`, `Archive` |
| `Upkeep` | aging databases and tables with dead tuples | external: consume, freeze, delete, vacuum, alter, reload; the probes freeze.*, vacuum.*; `Freeze` with `ageFinding`, `Vacuum` with `VacuumThreshold` |
| `Node` | `kbdiag status`, `repl`, `slots`, `space`, `archive`, `freeze`, `vacuum` against one such node | `Identify`, `Probe` (a query, or one statfs of a probe), `Report`, and `Instance`, a move of one of the three parts |
| `Timeout` | `--timeout` to `statement_timeout` | operators over a duration of any width: `timeoutMillis`, with its wraparound; part of `Diagnosis`, whose connection has that timeout |
| `VerdictProofs`, `DiagnosisProofs`, `TxnProofs`, `LocksProofs`, `ClusterProofs`, `SeqProofs`, `TableProofs`, `NodeProofs` | theorems | see Proofs |

`Txn`, `Locks`, `Cluster`, `Seq`, `Table` and `Node` take the commands apart
whose data decides. In `Commands` a command is a row, and its data is abstracted
to marks: a mark
`<<p, what>>` says that the rows of probe p would show what a rule can report.
`world` is the set of marks that hold now, reading a probe copies its marks,
and `Flip` makes one come or go. The seven commands of `Node` are rows there too:
`Diagnosis` has the broken links, the flags and the exit codes they share, `Node`
the values their rules compare.

`Diagnosis`, `Txn`, `Locks`, `Cluster`, `Seq`, `Table` and `Node` each implement
`HonestAnswer` by a refinement mapping (`Promise`): `lasting` are the troubles that have been there
since the run began (or since it identified the instance), `appeared` those
that showed at some time, `blinded` says that the answer rests on something
unseen. In all of them but `Diagnosis` the troubles are state predicates of the
server, written apart from the rules, so a rule that misjudges does not move its own goal.

Three of the mappings set something aside, because the code cannot keep more. In
`Seq` the row of a sequence altered during the query may mix two moments, so the
promise is about the sequences whose definition stood still (`altered`). In
`Table` an alarm of vacuum.table_disabled may put together parts that were true
at different moments of the run (`Pieced`); the run `torn` shows that it does.
In `Node` two rules put together what two probes read: repl.sync_short the
walsenders with a setting read after them, vacuum.table_disabled the tables with
thresholds read after them. Of such a finding the promise takes what all the
pairs of the run agree on: it may be raised when some walsenders or tuples that
were there fall short of some setting that was (`Pieced`), and it may be missed
unless all of them do (`Doubtful`).

## Runs

| Run | Bounds | Shows |
|---|---|---|
| `diagnosis` | 18 commands, each by itself; 2 changes of the instance | `EarnedOK`, `RealAlarm`, the promise `Answers`; `Ends`: every run ends, and `Nearer`: no step is repeated; `TimeoutSet` for every duration of 8 bits, 10 to a millisecond |
| `uncollected` (violation) | as above | exit 0 although a probe of the command failed |
| `txn` | 2 sessions, one maskable; 2 xids before the run ends, the counter wrapping from 15 to 3; clock 1 | the oldest xid and its holders (`OldestNamed`), that a linear scan finds it across the wraparound (`ScanFindsOldest`), `Answers` |
| `locks` | 2 sessions, one of another user; a prepared transaction; 2 objects, one a transaction id; 3 moves of the server | `ShowsHolder`, `Answers` |
| `cluster` | 3 nodes, kbdiag on node 2; 3 moves of the cluster once connected, 1 change of what the server lets in before | `AccusesRightly`, `MissesNothing`, `MetadataRead`, `Answers` |
| `refusal` (violation) | as above, no moves | exit 69 although the server answered with a refusal of esrep |
| `seq` | 2 sequences of types of 2 and 3 bits, with 4 definitions that ascend, step over their end, descend to the limit of their type or cycle; 2 sessions, caches of 2, WAL 1 ahead; 2 moves | `LeftHolds`, `LeftIsExact`, `FixHelps`, `Answers` |
| `seqcached` (violation) | 1 sequence with a cache | a session still inserts from a sequence that `seq` fails |
| `node` | 2 standbys, 9 settings of synchronous standbys in every way to write them, 3 connections with 1 reserved; 2 filesystems, 1 tablespace; 2 databases, the stop limit at age 2; 1 table with up to 2 dead tuples; 2 moves | `ReadsTheSetting`, `TablespaceHidesNothing`, `StopIsSeen`, `Answers` |
| `tunnel` (violation) | as above, no moves; the other host may have the same directories | `space` fails a server on the disks of another machine |
| `table` | 2 relations, 2 moves | `OneRelation`, `ListComesBack`, `Answers` |
| `torn` (violation) | as above | an alarm that was never true at one moment |

The bounds. The deepest thing that can go wrong in `Diagnosis` needs one mark
to go and another to come between two probes: two changes. A wrong oldest xid
needs a transaction that moves, a second one with a newer xid, and the wrap
between them. A wrong blocker needs a waiter, an owner and one change between
the two moments; with three moves the owner can also become a prepared
transaction. A wrongly detached standby needs it to be away before the run and
to return (attach, then be recorded) between two probes: two moves with a
standby that followed another node, and three leave one more. A sequence is
exhausted behind the back of a row by one fetch of several values, and a second
move sets or alters it; the types are so narrow that every limit of a type, of a
definition and of a step is met, and the arithmetic is proved for the real ones. The name of a table passes to another relation by two moves (drop or
rename, then create or rename). In `node` only what a command judges varies and
moves while it runs, since nothing else reaches its exit code, and what happens
before Identify is among the initial states. A wrong answer there takes one move
between two probes, and a second to undo it before the end; the settings of
synchronous standbys are chosen to hold a list of several, any name, and names
that look like a number, a keyword or punctuation, which is where readings may
part. The disks start full or free only where kbdiag can look at them.

`CHECK_DEADLOCK FALSE` is set where a run has an end: an exited process takes no
further step.

Fairness: only `diagnosis` has a liveness property. `FairSpec` is weak fairness
of the program's own steps: each is a computation, or a query the server ends by
`statement_timeout` or `lock_timeout`, or an open that `ConnectTimeout` ends
(conn.go, `connConfig`). It assumes that the server enforces its timeouts or the
link is noticed to be broken; the code sets no deadline of its own on a query.

### Disagreements with the documents

- `uncollected`: vacuum.progress, and repl.downstreams when no synchronous
  standby is asked for, are collected and shown but read by no rule, so their
  failure leaves exit 0; docs/PRD.md:34 and :135 say that a probe that failed
  never ends in OK. cluster.events is in the same position.
- `refusal`: docs/queries.md:52 and the comment in `newCluster` say that a
  refusal by esrep is not exit 69. The command opens esrep twice and examines
  only the first open; the second may meet what the first did not (its own
  first backend still counted against a connection limit, a reload of pg_hba,
  or a first attempt that failed on the network).
- `seqcached`: the comment of rule.Seq says that nextval errors, so every insert
  fails now; a session that drew several values at once (cache_size, which is
  read but not considered) goes on inserting with them.
- `tunnel`: the comment of InstDisk says that a directory found over a loopback
  connection shows that kbdiag runs on the database's host, and that nothing is
  judged on it. With a port forwarded to another host that has the same
  directories, `space` fails the server on the disks of this one. The run `node`
  leaves such hosts out (`Mirrors`).
- `torn`: the comment of rule.Table speaks of autovacuum turned off for a table
  while past its threshold; the option is read by table.info and the dead tuples
  later by table.stats, and the two may never have been true together.

## Proofs

For every set of probes, every table of commands that satisfies
`TableAssumption`, and any number of changes (`DiagnosisProofs`):

- `TypeCorrect`: `Spec => []TypeOK`;
- `ExitOKEarned`: `Spec => []EarnedOK`;
- `AlarmsReal`: `Spec => []RealAlarm`;
- `Honest`: `Spec => Answers`, the refinement of `HonestAnswer`.

The argument. None of the properties is inductive: they speak of the exit code
and of what lasted, while the steps copy marks probe by probe. The inductive
invariant adds what is in between: `Order` (the phase says which of role, verdict
and exit have values, and that nothing was read before `Collect`), `Shows` (a probe
that was read and not masked holds every mark of its own that has lasted, and one
that was not applicable was gated off by the role that Identify read, or is a disk),
`Saw` (what a probe holds showed at some time) and `Verdicted` (the verdict is that
of what was seen). A mark that lasts is in the world at every moment, so it is in the rows
whenever they are read: that is where the invariant earns `EarnedOK`.
`TableAssumption` is what the rules have in common: a finding rests only on
probes that the command runs, that apply in that role, and whose status the rule
reads. TLC evaluates it for the real table of `Commands` on every run of
`MCDiagnosis`.

`DiagnosisProofs` also has:

- `OKWhenAllRead`: where the rule of a command reads every probe but some that are
  let pass, exit 0 says that each of the others had its rows, none hidden, or did
  not apply. That is so of 15 of the 18 commands, of `space` but for `inst.info`, and
  of `repl` but for `repl.downstreams`; `vacuum` is the one that reads less, and with
  `repl` what the run `uncollected` finds;
- `EndComesNearer`: `Spec => Nearer`. Each step of the run leaves fewer of them
  (`Remaining`), so there are at most 5 more than the plan has probes, whatever
  fails. It is the half of `Ends` that needs no fairness;
- `TimeoutRoundsUp` and `TimeoutAlwaysSet`: of durations of any width, whatever
  positive one is given, `statement_timeout` is never 0, and one that the server
  accepts is the duration rounded up. A sum that wraps around comes out negative,
  which the server refuses with the connection.

For any number of sequences, sessions and moves, any types and any legal
definitions (`SeqAssumption`), `SeqProofs` has:

- `SeqTypeCorrect`: `Spec => []TypeOK`;
- `LeftExact`, `LeftKept`, `FixRight`: `LeftIsExact`, `LeftHolds` and `FixHelps`
  always hold;
- `NothingToFetch`: a sequence that `seq` fails, and that nobody set or altered since
  its row, has nothing left for a session that must fetch; and if no sequence has a
  cache, `RaisedFailsForAll` always holds (`UncachedFailsForAll`), so the run
  `seqcached` needs the cache it has;
- `SeqHonest`: `Spec => Answers`, the refinement of `HonestAnswer`.

The argument rests on one lemma of arithmetic, `LeftCounts`: from a value within
the limits, k more steps stay within them just if k is at most `SeqLeft`. None of
the properties is inductive. The invariant adds that values, live and logged,
stay within the limits (`InLimits`), which only the definition of `Taken` and the
checks of `Alter` and `Setval` give; that a sequence not altered still has the
definition of the snapshot (`History`), so that a row mixes nothing; that a row
read on a primary tells whether the sequence was exhausted (`RowsTell`); and, for
`LeftHolds`, where a sequence has got to since its row was read: exactly `drawn`
steps on (`Drawn`), which caches do not disturb and which `setval`, `ALTER` and a
new cycle give up. `RowLegal` carries the legality of a definition into its row,
which is all that `FixHelps` needs.

`TxnProofs` has, for any sessions, any modulus of which the xids in play span less
than half, and any start of the counter:

- `TxnTypeCorrect`: `Spec => []TypeOK`;
- `TxnScan`, `TxnOldestNamed`: `ScanFindsOldest` and `OldestNamed` always hold;
- `TxnHonest`: `Spec => Answers`.

The first lemma is arithmetic: inside the window, `OlderXID` orders xids by how long
ago they were given (`OlderIsEarlier`). That every xid is inside it is an invariant of
the server (`InPlayNear`: none was given longer ago than there are xids given, but for
the three a wraparound skips) and of the rows (`RowsNear`), which go on aging after
they were read. The scan is proved for any order of the holders, with no induction:
the first place where it would not have the oldest so far, if there were one, has a
predecessor where it has. `OldestNamed` needs to know where a transaction is between
the queries: what has held its xid since the run began was in a session's row, or no
session has it any more (`KeptTells`), so it is among the prepared ones when those are
read; `Unique` (an xid is of one transaction, the next one of none) keeps a session
from getting that xid back. A standby gives no xids (`NoneGiven`), so one that is
promoted while the run goes on held none throughout (`RoleLasts`).

`LocksProofs` has, for any sessions, prepared transactions, kinds of objects and moves:

- `LocksTypeCorrect`: `Spec => []TypeOK`, the lock table included;
- `LocksShowsHolder`: `ShowsHolder` always holds;
- `LocksHonest`: `Spec => Answers`, for `locks` and for `session`.

A blocker that lasts blocks now, until the blockers are asked for (`StillStuck`), so
the copy of the lock table has the waiter's request and the owner's lock, and the later
question names the owner, or 0 for a prepared transaction, whose rows have no pid either
(`BlocksTell`, through `PidOf`). `ActivityTells` and `LocksTell` say of the two sources
that they show what lasts, and nothing that has not shown; the second does so by pid
before the blockers are known and in the target's rows after.

`ClusterProofs` has, for any finite set of nodes and any number of moves:

- `ClusterTypeCorrect`: `Spec => []TypeOK`;
- `ClusterAccuses`, `ClusterFinds`, `ClusterSaw`: `AccusesRightly`, `MissesNothing` and
  `MetadataRead` always hold;
- `ClusterHonest`: `Spec => Answers`.

Five sources are read one after another, so the invariant has a part for each: the
database chosen and why (`Place`), the role and what may have become of it (`Role`: after
a promotion the cluster was in between, so a mismatch has shown), the rows of
repmgr.nodes (`Rows`, `RowsTell`), the list of standbys and then the mode (`SyncTells`),
the walsenders (`DownsTell`). What they have in common is the pair of claims made of
each: what the source says was so when it was read, and has therefore shown; what lasts
was so then, and is therefore in it. Accusing a standby of being detached relates three of them: `PrimaryTells` says
that a node judged as the primary is one until the report, and that a standby it had is
detached only after it was seen so.

`TableProofs` has, for any relations and moves:

- `TableTypeCorrect`: `Spec => []TypeOK`;
- `TableOneRelation`, `TableListComesBack`: `OneRelation` and `ListComesBack` always hold;
- `TableHonest`: `Spec => Answers`;
- `WholeUnlessBegun`: `AlarmIsWhole` always holds if none of the parts of a
  vacuum.table_disabled begins while the probes run (`NothingBegins`), whatever ends
  or becomes of the relations meanwhile. The run `torn` shows a part that begins.

What the later probes have is of the relation of the first (`Bound`), and that one is
what it was or gone (`OneRow`): a relation's kind never changes and an oid that was
dropped is not given again. `InfoTells`, `StatsTell` and `SettingsTell` say what each
source shows, in whole and in parts: a vacuum.table_disabled is put together from three
of them, and the promise is about the parts (`Pieced`). Only a standby changes its role
(`RoleLasts`), so what only a primary can have lasts in no run that began on a standby.

`NodeProofs` begins with `ReadAsWritten`: every setting the server accepts (`Legal`: lists
of any length, of names of any spelling, a number, `*`, a comma or a parenthesis
among them, the number asked for from 1 to 3), in each of its forms (`Texts`), is
read as the number and the names the server goes by. It is proved over tokens: a form
begins with a word that is no name, or with a number and a parenthesis, or is the bare
list, whose second token is a comma, so `Method` and `Numbered` tell the forms apart;
what is left is the arithmetic of every second token.

For any standbys, settings, databases, filesystems and moves it goes on to the following.
The assumptions ask for what a server has (a database, a filesystem, the default setting,
finitely many standbys, fewer reserved connections than connections) and put the stop
limits above the ages at which the server starts to freeze.

- `SettingRead`: `ReadsTheSetting` always holds. Invariant: the setting is legal and
  the text is one of its forms (`Written`), which every reload keeps; `ReadAsWritten`
  does the rest;
- `NodeTypeCorrect`: `Spec => []TypeOK`;
- `StopSeen`, `TablespaceHides`: `StopIsSeen` and `TablespaceHidesNothing` always hold;
- `DisksOfTheServer`, `NodeHonest`: if no other host has the same directories
  (`TRUE \notin Mirrors`), `TheServersDisks` always holds and `Spec => Answers`. The run
  `tunnel` shows a counterexample where one has, so neither holds without the hypothesis.

The parts of the invariant that are named `Tell` or `Tells` say, of one result or a few,
the same two things: what the rule would find in it has shown by now (`touched`), and
what has lasted since `Identify` (`held`) is in it, or it is a blind spot. `Noticed` is where both come from: at every
moment what is held is wrong now, and what is wrong now has shown, so a step that reads
can tell. The rest is about what changes between the reading and the report. A primary
stays one, and a standby that is promoted loses its upstream and with it all that only
one of the two roles can have (`RoleLasts`). The times of the archiver tell what came of
the last attempt (`Archiver`). A statfs meets the filesystem that the directory was on
throughout (`Disks`, `Weighed`), and the rows of the first one are there for the others
(`DiskTells`, `SpaceTells`). What is put together from two probes, or has to be, is in
`glimpses` in all its pairs (`SyncTells`, `VacuumTells`, `SyncPaired`, `TablePaired`);
for the walsenders that the rule counts there is a bijection to the standbys that count
as synchronous (`SyncCounted`), and the number they are held against is the right one by
`ReadAsWritten`. `GatesTell` says which results of `repl` are not applicable at its end,
and is why `Blind` may ask for the role. Of each rule one lemma then says that it is
`Fair` (`StatusFair`, ..., `VacuumFair`): it finds nothing that has not shown, and what
lasts it finds or is blind to.

`VerdictProofs` has `MergeIsLossless` (merging two results gives the verdict of
their findings and blind spots together, though each has lost part of them) and
`ExitCodesTellApart`.

Each of the refinements follows one line. The exit code is that of the judgement
(`Judgement`), the judgement is the merge of its rules (`MergeOfTwo`,
`MergeWithUnread`), what a rule found has shown, and what lasted is found by a rule
from which nothing was hidden (`LastsFound`); so the answer is honest at the moment it
is given (`ExitHonest`), and until then what lasts only shrinks and what appeared only
grows (`Ages`).

Model-checked only: liveness (`Ends`), which is out of the prover's reach.
`NothingUncollected`, `RaisedFailsForAll`, `TheServersDisks` and `AlarmIsWhole`, which
runs refute, are proved where they do hold, as said above. `RefusalIsNot69` has no such
theorem: it holds when the server answers both connections alike, which only repeats it.

## Not modelled

- text and JSON layout, units, column contracts: no control;
- the text of repmgr.conf, read as its mode, and the characters of
  `synchronous_standby_names`: `SyncNames` begins at the tokens of `syncTokens`;
- of `vacuum`, the parsing of a table's options and the float4 arithmetic of its
  threshold; thresholds and scale factors are small integers;
- of `space`, an unreadable size of a segment in a row that came back, and sizes
  that are only shown; of `status` and `repl`, positions and lags, which no rule
  reads;
- a link that breaks during the commands of `Node`: each of their probes may fail
  by itself, and what a broken link adds is in `Diagnosis`;
- of `seq`, the share of the range that is used (a float, shown and sorted by);
- of `table`, the thresholds of the relation itself (reloptions), the float4
  arithmetic, and the contents of what is only shown; ages are young, due or
  stopped;
- masked `application_name` of walsenders: the server does not mask it for the
  account the documents describe;
- a server that stops answering without the link breaking: see Fairness.

## Plan

1. (done) `Verdict`, `HonestAnswer`, `Diagnosis`, `Commands`: the core, checked
   and proved.
2. (done) `Txn`, `LockTable`, `Locks`, `Repmgr`, `Cluster`: the commands whose
   rows are read at several moments and related to each other.
3. (done) `Seq`, `SeqProofs`: the sequence's limit against what nextval does, with
   caches of sessions; proved over all integers.
4. (done) `Table`: the conditional plan, a relation dropped, renamed or replaced
   between its probes.
5. (done) `SyncNames`, `Replication`, `Storage`, `Upkeep`, `Node`: the seven commands
   about one node, with the values their rules compare; `Timeout`.
6. `RepmgrConf`: the parser of repmgr.conf as a function over tokens, against what
   repmgr makes of the file; what `sessions` and `waits` count against what they list.
7. (done) `TxnProofs`, `LocksProofs`, `ClusterProofs`, `TableProofs`: what the runs check
   of these commands, and each of them against `HonestAnswer`.
8. (done) `NodeProofs`: the same for the seven commands of `Node`, one rule at a time.
9. (done) Where the statements of the documents that a run refutes do hold, and what
   of `Ends` is safety.
