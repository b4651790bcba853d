# TLA+ verification of fty-common-db

fty-common-db is a C++ library: functions over a MySQL database of assets
(datacenters, rooms, racks, devices), called through tntdb by several agents
and by several threads of each. The library keeps almost no state of its own;
the state is in the tables. It uses no transaction: every SQL statement commits
by itself, so between two statements of one call, and between two calls,
anything the other callers do can happen. Paths below are relative to the
repository's `src/` (for example `insert.cc` is `src/fty_common_db_asset_insert.cc`).

## Inventory

| Component | State | Operations | What makes it correct |
|---|---|---|---|
| Asset table (`insert.cc` 651-775, `update.cc`, `delete.cc` 281-326) | `t_bios_asset_element`: id, unique name, type, parent, status | `insert_into_asset_element` (exact name, or temporary name and rename), `update_asset_element`, `update_asset_status_by_name`, `delete_asset_element` | each row ends under the name its insert was asked for; an id is published once under one name that never changes; an error publishes nothing; no orphan without an error or a crash |
| Extended attributes (`insert.cc` 42-322, `delete.cc` 173-279, `asset.cc` 895-936) | `t_bios_asset_ext_attributes`: value and read-only flag per asset and keytag | single and multi-value insert, delete by tag or by flag, `unique_keytag` | a user's insert never overwrites; the affected-row count is read right; success means that what was asked for is stored |
| Links (`insert.cc` 478-647, `delete.cc` 37-131) | `t_bios_asset_link`: source, destination, type, outlet, inlet | one insert, batch by ids, batch by names, delete one, delete all to an asset | links join devices that are there, two sockets are joined once, a failed lookup links nothing |
| Containers and queries (`asset.cc` 231-306, 340-830, 938-1103, 1735-1912, `uptime.cc`) | none (reads the tables) | what is in a container, in none, under a datacenter; power links and devices; `get_dc_upses`, name filter | queries return what is really below a container, agree with each other, and answer about the asset that was named |
| Groups (`insert.cc` 326-474, `delete.cc` 135-168, 328-412, `asset.cc` 997-1067, 1556-1607) | `t_bios_asset_group_relation` | insert one membership, insert into several groups, delete by group, by member, by pair; groups of an asset, their maximum | a batch is all or nothing, what an insert reports is true, both roles of a group can be cleared |
| Discovered devices (`insert.cc` 780-872, `delete.cc` 415-448, `asset.cc` 835-865) | `t_bios_discovered_device`, `t_bios_monitor_asset_relation` | insert a device, relate it, delete the relation, the device of an asset | one id per device, whatever is retried |
| Name lookups (`asset.cc` 35-226) and lists by keytag (867-896, 1105-1197, 1435-1497) | none (reads the tables) | internal to external names and back; attributes by keytag, by asset, counts | the lookups are inverse to each other, the lists show one table |
| Detail queries (`asset.cc` 308-340, 1233-1269, 1317-1433, 1499-1553, 1609-1733, 1815-1843, 1912-1953) | none (reads the tables) | one asset by id or name, short and basic lists, status, warranty, links to a device | what is shown of one asset is what the lists show |
| Daisy chain (`asset.cc` 1955-2007) | none (reads the tables) | assets that share an address, by position | only members of a chain get one |
| Connection and credentials (`dbpath.cc`) | `DBConn::url`, the environment, two static buffers | `dbpath`, `dbreadcredentials` | the URL is made of the file read last, never of two |
| `CommonException` (`exception.cc`) | none | to JSON and back | the error survives the conversion |

How they interact: all of them through the tables. A link, an attribute, a
membership or a child row keeps its asset from being deleted (foreign keys);
`insert_into_new_asset_links` and `get_dc_upses` call `name_to_asset_id`, on a
connection of its own, before they insert or select by the id it found. Every
connection is opened with `DBConn::url`, which only the credentials change.

Hard behaviours: the window between the two statements of an insert; a
statement that ran but whose answer was lost; a client that dies inside a
multi-statement call; ids looked up and used later; batches that go on after a
failure; MySQL's row counts for ON DUPLICATE KEY; location trees that updates
turn into circles or make deeper than the ten levels of the view; the clearing
of an asset's rows, table by table, while other clients add new ones; buffers the
environment points to while they are read again. The `hazards` of `PROJECT.json`
list them line by line.

## Modules

| Module | Models |
|---|---|
| `AssetRegistry` | abstract: identifiers are published under a name, once |
| `AssetElement` | the asset table and its four writers, statement by statement; refines `AssetRegistry` |
| `MCAssetElement` | its TLC instance (client symmetry) |
| `AssetElement_proof` | type correctness, the naming invariant and its strengthening, errors publish nothing; `AssetElement` implements `AssetRegistry` |
| `ExtAttributes`, `ExtAttributes_proof` | the attribute table, its writers and `unique_keytag` |
| `AttributeQueries`, `AttributeQueries_proof` | `ExtAttributes` and the queries over its table |
| `DaisyChain` | `ExtAttributes` and `select_daisy_chain` |
| `Cabling` | abstract: the wires between sockets of devices, and when they come and go |
| `AssetLinks`, `MCAssetLinks`, `AssetLinks_proof` | the link table, single and batch inserts, deletes; refines `Cabling` |
| `Containers`, `MCContainers`, `Containers_proof` | the location tree, the queries over it, the two-statement reads |
| `Groups`, `Groups_proof` | the memberships, their inserts, deletes and queries |
| `Discovered` | discovered devices and their relation to assets |
| `AssetDatabase`, `MCAssetDatabase`, `AssetDatabase_proof` | `ExtAttributes`, `AssetLinks`, `Groups` and `Discovered` around one table of assets |
| `Credentials`, `MCCredentials`, `Credentials_proof` | the connection URL, the environment, the credentials file |

### AssetElement

`element` is the table, `lastId` its auto_increment counter, `call[c]` where
client `c` is inside `insert_into_asset_element` (idle, or between INSERT and
UPDATE with `ret.rowid` in hand), `reply` the result of the call that returned
last, `asked` a history: for each row, the name its insert was to give it and
what its caller has been told. Actions: `InsertRefused` (the checks, 670-697),
`InsertExact` (with `update`, one statement), `InsertTemp` and `RenameInserted`
(without it, two statements), `InsertTempThrows` (catch block), `Crash`,
`UpdateElement`, `UpdateStatusByName`, `DeleteElement`.

A statement has an outcome: `done`, `lost` (it ran, the connection failed before
the answer came) or `thrown` (it did not run). tntdb throws for the last two,
and so do a violated unique or foreign key, so each call's catch block is a
disjunct of its action.

A name has one of the three shapes the code tells apart: as given, `<base>-<k>`,
and `<base>-@@-<rand>`. Callers may pass any of them; `is_ok_name` keeps out the
third. A caller's own `<base>-<k>` may clash with the name a later row will be
given. Left out: `priority`, `asset_tag` and the subtype, which no condition
reads; gaps in the ids left by failed inserts; the case-insensitive collation of
names; a base that itself ends in `-<number>` on the two-statement path.

### ExtAttributes

`attr[e][k]` is the row of keytag `k` of asset `e` (unique key), `asset` whether
`e` is there, `reply` what the last call was asked and answered. Each call is one
statement, so each is one action. `Affected` is what MySQL reports: 1 for a new
row, 2 for a changed one, 0 for an unchanged one; `CountOk` is the code's reading
of it. The read-write insert is INSERT ... SELECT ... WHERE NOT EXISTS, taken as
atomic; the unique key would stop a duplicate in any case.

`AttributeQueries` extends it with the queries, as operators of the table: a
query is one SELECT, so its answer is a function of one state. The internal name
of an asset is modelled by its id. A lookup that takes one row of several is the
set of its possible answers, and the empty set is "not found". `NameLookupsAgree`
needs the foreign key, since some of the lookups join with the asset table and some
do not. `DaisyChain` extends it with `select_daisy_chain`, the set of maps it may
answer with: of two assets at one position `emplace` keeps the first. The column that
is read into an uninitialised `int` is never NULL, so a position is a number or the
call fails.

### AssetLinks

`link` is a bag of rows, because links without outlet or inlet multiply: the
NOT EXISTS clause compares with NULL. `call[c]` is the position of a client
inside a batch: looking up source and destination names (`src`, `dest`), then
inserting (`insert`); `good` counts the links that succeeded and `asked` keeps
the names for the properties. Names are numbers, `NameOf[e]` the one asset `e` is
inserted under; two assets that are there never share one, but the name of a
deleted asset may be given again, which is what a batch by names has to survive.
`ToId` is the conversion of the `int64_t` -1 or -2 of a failed lookup into the
`uint32_t` of `link_t` (`IdSpan` values), `Narrow` that of the 16-bit type into
the 8-bit argument (`TypeSpan` values). `Cabling` is what a reader of labelled
links may rely on: it knows neither batches nor lookups nor connections.

### Containers

The tables of the three modules above, reduced to what the queries read, change
by any of those modules' writes. A query is one SELECT, hence an operator, and
the invariants compare the operators in every reachable state. `IdParent(i)` is
the chain of parent columns of `v_bios_asset_element_super_parent`, `Levels` of
them (10 in the code). `get_dc_upses` and
`select_assets_by_container_name_filter` are two statements each: `LookUp`, then
`SelectUpses` or `SelectByName`, with `holder` remembering who bore the name.

`select_assets_all_container` glues its WHERE clause together of four parts, any of
which may be missing. `Asked` says which are there, `WhereIsWritten` and `AndBefore`
are the conditions under which the code writes the words between them, and `Parses`
is what MySQL asks of the text: a word too many or too few makes the query fail
(`Error`). `select_assets_by_container` and `select_assets_without_container` start
with a condition of their own and write an AND with each part; the overload of the
former with a status always compares it (`AssetsInContainer`). The filters by names
take a name as a subtype's or else as a type's and throw for any other
(`KnownNames`, `ByTypeOrSubtype`). `select_links_by_container` has a second
statement, for the log, whose failure costs the caller the links.

The detail queries show a row of `v_web_element` (`WebElement`), its asset joined
with the parent; columns that no condition reads, such as `priority`, are left out.
That the one statement of a query throws is left out: the caller is told so.

### Groups

`member` is the table, a set of pairs (unique key); a group is itself an asset.
Each call is one statement. `AllOrNone` is the multi-row INSERT: a row that is
there, or a missing asset, makes the statement throw and nothing is inserted, so
the call is no retry, whereas the single insert (`WHERE NOT EXISTS`) is one.
`freed` is a history: the roles, as a group and as a member, in which each asset
was reported cleared and has got no row since. `ElementGroups` is
`select_asset_element_groups`; `select_group_names` shows the names of the same
groups and has no definition of its own.

### Discovered and AssetDatabase

`Discovered` has the devices by name (`device`), the auto_increment counter, which
an insert spends also when the name is there (`spent`), and the relation to
assets, a set: equal rows of it are read, kept and deleted together; `told`
remembers the ids callers were given. It is run as a part of
`AssetDatabase`, which instantiates the four modules of tables around assets with
one `asset`: a call is a step of one part while the variables of the others stay,
and an asset appears and disappears for all parts in one step, so that it can be
deleted only if no part has a row that names it. `cleared` is a history of the
deletes that reported success for an asset. The location tree is left out of the
composition: a child keeps its parent, see `Containers`.

### Credentials

A process inherits an environment; `dbreadcredentials` checks that the file is
there (`CheckFile`), then opens it, reads two lines into the static buffers, calls
`putenv` for each and computes the URL (`ReadFile`); the file may be written or
removed before, between and after. The environment is a list of slots, each with
a text of its own or a pointer to a buffer, so that reading into a buffer changes
what `getenv` finds before `putenv` is called, as it does with glibc. A value is
known by where it comes from, the version of the file, and whether it was cut at
the end of the buffer. One thread runs these functions.

### Observations

What the code does and the models reproduce, without a run of their own:

* the multi-value insert of attributes writes keytags and values that the single
  insert refuses (`is_ok_keytag`, `is_ok_value`; `insert.cc` 235-271);
* `insert_into_asset_links` passes a 16-bit link type as an 8-bit argument, so a
  type such as 257 is checked and stored as 1 (`insert.cc` 627);
* `max_number_of_power_links` counts links of every type (`asset.cc` 948);
* `select_assets_by_container` with `without` set to "location" asks for assets
  in a container that have no parent, and so never returns any;
* `update_asset_element` gives a datacenter a parent, which
  `insert_into_asset_element` refuses under the comment "ASSUMPTION: all
  datacenters are unlocated elements" (`insert.cc` 690); and it reports success
  for an id that is not there, under the comment that then nothing "was updated
  because it was the same" (`update.cc` 92);
* the multi-value insert of attributes keeps rows that are there, with another value,
  and reports success, and a batch of links reports success for a link whose end is no
  device, where the header promises an error if any insert failed
  (`fty_common_db_asset_insert.h` 44 and 78);
* `insert_into_asset_element` decides on success by the rows of its first statement: a
  row that is deleted before it is renamed is reported as inserted
  (`insert.cc` 758), which its caller cannot tell from a delete just after;
* `id_to_name_ext_name` returns two empty names for an asset that has no external
  one, since the WHERE clause turns its LEFT JOIN into an inner one (`asset.cc` 46);
* `list_devices_with_status` lists assets of every type, where the header says it
  "returns active/inactive devices" (`fty_common_db_asset.h` 313), and
  `select_asset_element_all_with_warranty_end` every asset that has the date, where
  the header says "assets which are close to warranty expiration" (71-72); no
  property takes either list for right;
* inserting a discovered device again under another type keeps the old type;
* there is a delete for the links to an asset and none for the links from it;
* the comment of `dbreadcredentials` says "0 if OK, -1 if KO" of a `bool` that is
  true if all went well (`dbpath.cc` 74);
* a credentials file that sets only the user leaves an inherited password in the
  URL, beside the file's user;
* `throwCommonException` reads `extraData` and drops it, and the numbers of the
  error subtypes in `fty_common_db_exception.h` are not those of
  `fty_common_db_defs.h`.

## Runs

| Run | Bounds | Shows |
|---|---|---|
| `naming` | 2 clients, 3 rows, 2 random numbers, 1 base, exact numbers 1 and 3, all three outcomes | `TypeOK`, `RowNamedAsAsked`, `TempRowHasOneOwner`, `CallsOwnTheirRows`, and that `AssetElement` implements `AssetRegistry` (`ImplementsRegistry`) |
| `answers` | 2 clients, 2 rows, parents, datacenters, an illegal status; done and thrown | `ErrorMeansUnpublished`, `InsertReturns` |
| `attributes` | 2 assets, an allowed and a forbidden keytag and value each, all outcomes | `TypeOK`, `OneMeansHeldByAnother`, `InPlaceChangeIsReadOnly`, `SingleInsertAnswer`, `NameLookupsAgree` |
| `links` | 2 clients, 2 devices and another asset with a name of the first, at most 2 rows before each insert starts, batches of up to 3; done and lost | the four properties of the link table, and that `AssetLinks` implements `Cabling` (`ImplementsCabling`) |
| `tree` | 4 assets, a view of 2 parents, every parent including oneself, 1 reader, two assets given one name | `ContainerHoldsWhatIsBelow`, `ListedUnderOneRoot`, `AnswersAboutTheNamed` |
| `filters` | 3 assets, 2 statuses, 3 links of 2 types, 32 filters (every part given or not), 4 sets of names, no reader | `TypeOK`, `QueriesAgree`, `DetailsAgree`, `PowerLinksSeenFromRoots` |
| `groups` | 3 assets, 2 of them groups and 2 members, one both; all outcomes | `TypeOK`, `InsertAnswerTrue`, `SuccessIsExclusive`, `BothRolesClearedFrees`, `GroupQueriesAgree` |
| `credentials` | every inherited environment, 3 versions of the file, lines that set, unset, are too long, empty or foreign | `TypeOK`, `WellFormedFileWins`, `FileCredentialsAreFresh` |
| `database` | 2 devices, one attribute, one link each way, the watched one a member of two groups, one of which it is itself; one discovered device, 1 client in a batch; done and lost | `TypeOK`, `ClearedMeansFree`, `OneIdPerDevice` |

Why the bounds are enough. In `naming`, three rows are needed for one insert to
be between its statements while another one takes a row and a third clashes by
number with a name passed explicitly; two equal random numbers let two temporary
names collide and two different ones let them not. In `links`, two clients are
enough for every pair of statements to interleave, the lists hold the same
sockets twice, an end without outlet, a missing source, a type that narrowing
makes acceptable, an asset that is no device and a name nobody bears, and the
table may hold a link and its repetition; 16 numbers for ids and 4 for types keep
what matters of 2^32 and 2^8, that a failed lookup becomes a large id that no
asset has and that a type too large comes out as another. In `tree`, four assets make chains
deeper than the view of two parents and circles of every length up to four, and
id 4 gets the name of id 1 once that is deleted. In `groups`, asset 2 is a group
and a member at once, two groups make an insert of several overlap another one in
part, and every order of the calls is explored. In `credentials`, three versions
are enough for a second file to leave in the buffers and slots what a third one
meets. In `filters`, each of the sixteen ways to
leave parts out occurs, and each kind of "without". In `database`, the watched asset
can have a row in each of the tables, and be a member of another group, or a group
and its member at once, whose row either delete clears.

`CHECK_DEADLOCK` is off in `filters` only: when all ids have been used and all
assets deleted nothing is left to do, which comes from the bound. Symmetry is
over clients, in runs without liveness properties; clients are only ever
compared with each other. `database` compares states by `Tables`, which leaves out
what the last calls answered and the freed roles of the assets that are not watched:
no guard reads them, nor do its invariants, except for the type of the answers and
for the roles of the watched asset, so states that differ in them alone behave alike.

Three runs of a second kind show a disagreement between the code and what a
header of the repository says; each checks one property that states the claim,
and TLC finds it violated (`findings` in `PROJECT.json`):

| Run | Property | What the code does |
|---|---|---|
| `attributes_unique` | `ZeroMeansUnique` | `unique_keytag` answers 0 for a pair two assets hold |
| `links_delete` | `DeleteChecksBothEnds` | `delete_asset_link` checks the source twice and the destination never |
| `daisy` | `OutsideMeansEmpty` | `select_daisy_chain` lists the chain of others for an asset that is in none |

Fairness. Weak fairness of the statements of a call that has started, and of
nothing else: a thread inside the library runs on until it returns, unless it
dies (`Crash` is not fair, and also ends the call). Nobody has to start a call,
and no statement has to succeed.

## Proofs

`AssetElement_proof`, for any number of clients, ids, names, random numbers,
types and parents, from `ElementAssumption`:

* `TypeCorrect`: `Spec => []TypeOK`.
* `RowsNamedAsAsked`: `Spec => []RowNamedAsAsked`.
* `CallsOwnRows`: `Spec => []CallsOwnTheirRows`.
* `TempRowsOwned`: `Spec => []TempRowHasOneOwner`.

`RowNamedAsAsked` alone is not inductive: the rename writes to the row with
`call[c].id`, and nothing in it says that this is the row the client inserted.
The inductive invariant is `IInv == TypeOK /\ RowNamedAsAsked /\
CallsOwnTheirRows`. Its last part says that names are unique, that every id up
to `lastId` has a history, and that each client inside the call owns alone an id
handed out, still pending, and under its temporary name if it is still there;
that is exactly what the connection-private `lastInsertId` gives. The proof has
one step per action and one lemma per named part. `TempRowHasOneOwner` follows
from `IInv`.

`RegistryImplemented`, on top of it: `Spec => ImplementsRegistry`. The mapping shows a row under its final name only
and hides temporary ones, so `InsertTemp` is invisible, `RenameInserted` is
`Publish`, `DeleteElement` is `Retire`; names stay unique because `NameTaken`
guards both statements and `CallsOwnTheirRows` says so.

`ErrorsUnpublished`, `Spec => []ErrorMeansUnpublished`: on top of `IInv`, a row whose
insert has failed has a temporary name (`FailedIsTemp`). A call that ends with an
error while no answer is lost has run no rename, and the other actions rename
nothing and touch nobody's answer.

`ExtAttributes_proof`, for any assets, keytags and values: `TypeCorrect`,
`InPlaceReadOnly`, `OneMeansAnother`, `SingleInsertTrue`. The
invariant is `TypeOK`, in which the foreign key is the part that takes an argument:
rows are added for assets that are there, and an asset with a row is not deleted.
The two action properties are proved action by action from it.

`AttributeQueries_proof`, from the same invariant: `NamesAgree`. The queries are
compared as sets of rows; that the join with the asset table loses no external name
is the foreign key again.

`AssetLinks_proof`, for any clients, lists, devices and widths of the numbers:

* `LinksJoinDevicesAlways` and `LabelledUnique`. The inductive invariant `RowsInv`
  joins both with the type of the rows; `OneMore` says what one more row makes of a
  bag. A link is inserted only if both ends are in the view and the same sockets
  are not, and the deletes take whole rows away.
* `TypeCorrect` and `NamedEnds`, from `CallInv`: of every link of a batch by names
  whose ends have been looked up, each end is an id that was inserted under that
  name, or one that is no asset's. An id is given one name for good, so if its
  asset is there when the link is inserted, it bears the name.
* `CablingImplemented`: the table implements `Cabling`, whose wires are the links that
  name an outlet and an inlet. By `RowsInv` the rows are a bag of links between known
  assets, so a statement that inserts is one wire more (`InsertSeen`: its NOT EXISTS
  clause finds the sockets free), or none when an outlet or inlet is missing; a delete
  takes all the wires of a pair or of a destination (`DeleteSeen`), none for the
  destination 0, which no row has; lookups, crashes and refused links are stutters.

`Groups_proof`, for any assets, groups and members: `TypeCorrect`,
`BothClearedFrees`, `InsertAnswersTrue`, `SuccessExclusive`.
`BothRolesClearedFrees` is not inductive: after one role is cleared nothing is
known of it. `IInv` adds `FreedRolesAreEmpty`: each freed role of an asset has no
row, which a delete establishes and only an insert, which ends it, can disturb.
`SuccessExclusive` counts: a union of disjoint finite sets. `GroupQueriesCorrect`
compares the maximum of the counts with the lists of single assets.

`Credentials_proof`, for any environment, lines and number of files:
`TypeCorrect`,
`CredentialsFresh` and `WellFormedWins`. `IInv` says that the slots are finitely
many, each with an inherited text or a pointer to one of the buffers, that the
buffers hold what the file read last makes of them, and that the URL is what
`GetDbpath` computes of both. So whatever `getenv` finds in a slot that points to a
buffer is from that file: every reading replaces it. For the second theorem
each `putenv` leaves its buffer in the first slot of its name.

`Containers_proof`, for any assets, links, filters, clients and levels of the view:

* `TypeCorrect`: parents, ends of links and owners of attributes are rows that are
  there, which the joins of all queries rely on.
* `ContainersCorrect` and `OneRootEach`. `ContainerHoldsWhatIsBelow` says of the view
  two things. What its columns show is above the asset: whatever is closed under
  parents and has the asset's parent holds the whole chain (`ShownInClosed`). And
  everything above is shown, unless there is more of it than columns: a chain either
  ends, or meets a row twice and has then gone through the whole circle, or has
  `Levels` different members (`ShownIsAllAbove`). An asset within reach of the view
  and below no circle has one end of its chain (`OneRootShown`).
* `LinksSeen`: a root is shown a power link between active assets exactly if one of its
  ends is below the root. Nothing is above a root (`NothingAboveRoot`), so what the
  query by container joins and what the list of a datacenter holds are one set.
* `DetailsCorrect` and `QueriesCorrect`. The detail queries need `UniqueNames`, for a
  lookup by name gives one row. `TextParses` shows for any filter that the glued WHERE
  clause has its AND between any two parts and nowhere else, `AllContainerIs` what it
  then selects; the texts that build the same condition are compared with that. The
  equality of the links counted from their sources
  and from their destinations is one of two sums over the assets, each the
  cardinality of a union of disjoint sets of links (`SumOfParts`).
* `NamedAnswered`: a client between its statements has the id of the row that bore
  the name, or 0 for the empty name (`CallsNamed`); the second statement is then the
  first theorem, asked of that id.

The inductive invariant is `IInv == Tables /\ Calls /\ UniqueNames /\
IsFiniteSet(link) /\ CallsNamed`. `Tables` and `Calls` are `TypeOK`; the others say
what the tables do not show: that the unique key holds for names given again, that
the links are finitely many, and what a reader has in hand while others write.

The chain of parents and the sums are recursive functions. The induction theorems of
the library take an operator, which the provers cannot instantiate; the proofs go
through well-founded orders instead, whose theorem `WFMin` is about sets. From
`NatLessThanWellFounded` come least numbers (`LeastNat`) and induction over a set of
numbers (`SetInduction`, which shows that the recursion of `IdParent` is well defined
and what it computes), from `FS_StrictSubsetOrderingWellFounded` that a sum over a
finite set is that over the set without an element, plus that element.

`ContainerAssumption` has what these proofs need of the code: `""` is no name of an
asset and no status, as the queries take it for "not given"; "unknown" is no status,
as it is what is answered for no row; the list of kinds of power devices is not
empty, since it is a list in the code; a filter has its four fields.

`AssetDatabase_proof`:

* `WholeImplementsParts`, `Spec => ImplementsParts`: every step of the whole is a
  step of each part or leaves the part's variables unchanged (`PartStep`), so what
  is proved of a part holds of the whole.
* `WholeClearedFree`, `Spec => []ClearedMeansFree`. `ClearInv` adds to the types of
  the attributes that each kind reported cleared has no row (`ClearedOk`), and
  `Groups`' `FreedRolesAreEmpty` under the instance (`FreedOk`).
* `WholeOneId`, `Spec => []OneIdPerDevice`, from `DevicesOk`: known devices have
  different ids, all spent, and every id told for a name is that of its row.

* `TypeCorrect`, `Spec => []TypeOK`: the types and foreign keys of all tables. Those of
  the links and the groups are carried over: the proof modules of the parts are
  instantiated, shown to define the same actions (`SameLinks`, `SameGroups`), and
  their theorems applied through `WholeImplementsParts`. The discovered devices have
  no proof module of their own; `MonitorOk` adds to `DevicesOk` that every relation
  has its device and its asset.

Every invariant and every action property of a passing run is stated by a theorem.
Only model-checked: the liveness property `InsertReturns`, because liveness under
fairness and `ENABLED` are out of the provers' reach. `RECURSIVE` operators are used
nowhere.

## Assumptions about what is outside

The database is modelled from what the statements rely on: unique names, the
unique key of an attribute, the foreign keys on parent, link and attribute, the
views, `LAST_INSERT_ID` private to a connection, row counts, one statement being
atomic. `persist::is_ok_*` are sets of accepted values. An asset whose parent is
itself can be deleted.

## Not modelled, and why

`CommonException` is a pure conversion that cxxtools does. Queries copy columns
into records: which rows they select and join is modelled, the columns that no
property tells apart are not. `select_ext_rw_attributes_keytags` lists the keytags of
the read-write rows, which is one column of the table; `list_devices_with_status`
and `select_asset_element_all_with_warranty_end` are one clause over one table each
(see the observations). `select_monitor_device_type_id` reads a table nobody
in this library writes. The cache of prepared statements (which grows with every
random number of a temporary name) and the logs are tntdb's and the logger's. Two
threads in `dbpath.cc` at once are undefined behaviour with no order of statements
to explore. The caller that joins `unique_keytag` with an insert, or runs the
deletes of an asset in an order of its own, is outside the repository; the
properties hold for every order. The self-test has no test of this logic and is
generated, like the build files.

## Plan

Done: 1. `AssetRegistry`, `AssetElement`, their proofs and the refinement. 2.
`ExtAttributes`, `AttributeQueries`, `DaisyChain`. 3. `AssetLinks`. 4.
`Containers` with the detail queries. 5. `Groups`, `Discovered`. 6.
`AssetDatabase`, the clearing of an asset's rows among other clients. 7.
`Credentials`. 8. Proofs of all of these, `InsertReturns` excepted.

Left, if the code calls for it: an abstract specification of the memberships,
refined as the asset table and the links are; the location tree inside `AssetDatabase`
(its rows multiply the states of the run); and `CommonException` if it grows fields
of its own.
