----------------------------- MODULE AssetElement ------------------------------
(***************************************************************************)
(* The rows of t_bios_asset_element and the library calls that write them: *)
(* insert_into_asset_element, update_asset_element,                        *)
(* update_asset_status_by_name and delete_asset_element, called by several *)
(* clients, each with a connection of its own and no transaction: every    *)
(* SQL statement commits by itself, so other clients run between the       *)
(* INSERT and the UPDATE that gives a new asset its final name.            *)
(*                                                                         *)
(* The database (unique name, foreign key of id_parent, auto_increment id, *)
(* affected-row counts) is external: it is modelled from what the          *)
(* statements in the source rely on.  priority and asset_tag are left out: *)
(* no condition of the code reads them.                                    *)
(***************************************************************************)
EXTENDS Integers

CONSTANTS
    Clients,        \* callers of the library, one connection each
    Bases,          \* names callers ask for that end in no "-<number>"
    MaxId,          \* bound: rows ever inserted
    RandValues,     \* values rand() can return
    ElementTypes,   \* the element types is_ok_element_type accepts
    Datacenter,     \* persist::asset_type::DATACENTER
    NoType,         \* element type 0
    Parents,        \* parent ids callers pass, 0 for "no parent"
    Statuses,       \* status strings callers pass
    Exact,          \* numbers k of the names "<base>-<k>" passed with update
    Outcomes,       \* what may happen to a statement, see Took and Reported
    Absent          \* stands for "no such row"

Ids == 1 .. MaxId

\* The three shapes of a name: as given by the caller ("ups"), "<base>-<id>"
\* (also what a caller passes to re-create an asset), and the temporary
\* "<base>-@@-<rand>".
Name == [kind : {"plain", "numbered", "temp"}, base : Bases, n : Nat]
PlainName(b) == [kind |-> "plain", base |-> b, n |-> 0]
NumberedName(b, k) == [kind |-> "numbered", base |-> b, n |-> k]
TempName(b, r) == [kind |-> "temp", base |-> b, n |-> r]

Row == [name : Name, type : ElementTypes, parent : Nat, status : Statuses]

ASSUME ElementAssumption ==
    /\ MaxId \in Nat
    /\ Bases # {}
    /\ RandValues \subseteq Nat
    /\ Exact \subseteq Nat
    /\ Parents \subseteq Nat
    /\ NoType \notin ElementTypes
    /\ Absent \notin Row /\ Absent \notin Name
    /\ Outcomes \subseteq {"done", "lost", "thrown"}

VARIABLES
    element,    \* t_bios_asset_element, by id_asset_element
    lastId,     \* its auto_increment counter
    call,       \* per client: where it is inside insert_into_asset_element
    reply,      \* the result of the call that returned last
    asked       \* history: what the insert that created each row was to do,
                \* and what its caller has been told

vars == <<element, lastId, call, reply, asked>>

Idle == [at |-> "idle", base |-> CHOOSE b \in Bases : TRUE, id |-> 0]
NotAsked == [state |-> "none", name |-> PlainName(CHOOSE b \in Bases : TRUE)]

\* db_reply_t, reduced to the fields a caller decides by; for the functions
\* that return an int, ok stands for 0.  id is the row the call was about.
Reply(op, ok, err, rows, id) ==
    [op |-> op, ok |-> ok, err |-> err, rows |-> rows, id |-> id]
Ops == {"none", "insert", "update", "status", "delete"}
Replies == [op : Ops, ok : BOOLEAN,
            err : {"none", "badinput", "internal", "notunique", "thrown"},
            rows : Nat, id : Nat]

Init ==
    /\ element = [i \in Ids |-> Absent]
    /\ lastId = 0
    /\ call = [c \in Clients |-> Idle]
    /\ reply = Reply("none", TRUE, "none", 0, 0)
    /\ asked = [i \in Ids |-> NotAsked]

--------------------------------------------------------------------------------
(* The database *)

IsLive(i) == i \in Ids /\ element[i] # Absent
Live == {i \in Ids : element[i] # Absent}

\* The unique key on name, seen by row i (0 for a row not yet inserted).
NameTaken(n, i) == \E j \in Live : j # i /\ element[j].name = n

\* The foreign key of id_parent.
ParentOk(p) == p = 0 \/ IsLive(p)

\* A statement runs and answers ("done"), runs but its answer is lost with
\* the connection ("lost"), or throws without having run ("thrown").
Took(o) == o \in {"done", "lost"}
Reported(o) == o = "done"

\* The id of the next row, and what conn.lastInsertId () returns on the
\* connection that has just inserted it (variant: read too early).
NewId == lastId + 1
IdBeforeInsert == lastId
LastInsertId == NewId

\* What a call that inserted a row tells its caller, for the history.
Told(ok) == IF ok THEN "ok" ELSE "failed"

--------------------------------------------------------------------------------
(* insert_into_asset_element *)

\* persist::is_ok_name: '@' is what keeps callers out of temporary names.
OkName(n) == n.kind # "temp"

\* The checks before the first statement (variant: the type is not checked).
InputOkAnyType(n, t, p) == OkName(n) /\ ~(t = Datacenter /\ p # 0)
InputOk(n, t, p) ==
    /\ OkName(n)
    /\ t \in ElementTypes
    /\ ~(t = Datacenter /\ p # 0)

InsertRefused(c, n, t, p) ==
    /\ call[c].at = "idle"
    /\ ~InputOk(n, t, p)
    /\ reply' = Reply("insert", FALSE, "badinput", 0, 0)
    /\ UNCHANGED <<element, lastId, call, asked>>

\* A statement of this function threw: the catch block answers INTERNAL.
InsertThrows ==
    /\ reply' = Reply("insert", FALSE, "internal", 0, 0)
    /\ UNCHANGED <<element, lastId, asked>>

AddRow(n, t, p, s) ==
    /\ lastId < MaxId
    /\ element' = [element EXCEPT ![NewId] =
                     [name |-> n, type |-> t, parent |-> p, status |-> s]]
    /\ lastId' = lastId + 1

\* ret.status is decided by the rows the INSERT affected (variant: off by one).
MoreThanOneRow(rows) == rows > 1
InsertedSomething(rows) == rows # 0

\* With update, a single statement.  Its ON DUPLICATE KEY branch sets the name
\* to what it is, so it affects no row and the insert is refused.
InsertExact(c, n, t, p, s, o) ==
    /\ call[c].at = "idle"
    /\ InputOk(n, t, p)
    /\ UNCHANGED call
    /\ \/ /\ Took(o) /\ ~NameTaken(n, 0) /\ ParentOk(p)
          /\ AddRow(n, t, p, s)
          /\ LET ok == Reported(o) /\ InsertedSomething(1) IN
             /\ reply' = IF Reported(o)
                         THEN Reply("insert", ok, IF ok THEN "none" ELSE "badinput",
                                    1, NewId)
                         ELSE Reply("insert", FALSE, "internal", 0, 0)
             /\ asked' = [asked EXCEPT ![NewId] = [state |-> Told(ok), name |-> n]]
       \/ /\ Reported(o) /\ NameTaken(n, 0)
          /\ reply' = Reply("insert", InsertedSomething(0), "badinput", 0, 0)
          /\ UNCHANGED <<element, lastId, asked>>
       \/ /\ ~Took(o) \/ (~NameTaken(n, 0) /\ ~ParentOk(p))
          /\ InsertThrows

\* Without update, first statement: a row under the temporary name.  The call
\* goes on to the second statement only if this one answered; if the answer
\* was lost, the row stays behind under its temporary name.
InsertTemp(c, b, t, p, s, r, o) ==
    /\ call[c].at = "idle"
    /\ InputOk(PlainName(b), t, p)
    /\ Took(o) /\ ~NameTaken(TempName(b, r), 0) /\ ParentOk(p)
    /\ AddRow(TempName(b, r), t, p, s)
    /\ asked' = [asked EXCEPT ![NewId] =
                   [state |-> IF Reported(o) THEN "pending" ELSE "failed",
                    name |-> NumberedName(b, NewId)]]
    /\ IF Reported(o)
       THEN /\ call' = [call EXCEPT ![c] =
                          [at |-> "inserted", base |-> b, id |-> LastInsertId]]
            /\ UNCHANGED reply
       ELSE /\ reply' = Reply("insert", FALSE, "internal", 0, 0)
            /\ UNCHANGED call

\* The first statement throws: another unfinished insert of the same base drew
\* the same rand (), the parent is gone, or the connection failed.
InsertTempThrows(c, b, t, p, r, o) ==
    /\ call[c].at = "idle"
    /\ InputOk(PlainName(b), t, p)
    /\ ~Took(o) \/ NameTaken(TempName(b, r), 0) \/ ~ParentOk(p)
    /\ InsertThrows
    /\ UNCHANGED call

\* The row the second statement names: ret.rowid, which is private to the
\* connection (variant: the newest row of the table).
NewestRow(c) == lastId
RenameTarget(c) == call[c].id

\* The function returns whether or not the UPDATE matched a row: it does not
\* look at that count, so a row deleted meanwhile goes unnoticed (variant: it
\* tries again until the UPDATE matches a row).
RetryUntilMatched(c) == IF IsLive(call[c].id) THEN Idle ELSE call[c]
AfterRename(c) == Idle

\* Second statement.  It throws when the final name is already some other
\* row's, and the row then keeps its temporary name.
RenameInserted(c, o) ==
    LET i == RenameTarget(c)
        n == NumberedName(call[c].base, i)
        clash == IsLive(i) /\ NameTaken(n, i)
        ok == Reported(o) /\ ~clash /\ InsertedSomething(1)
    IN
    /\ call[c].at = "inserted"
    /\ element' = IF IsLive(i) /\ ~clash /\ Took(o)
                  THEN [element EXCEPT ![i].name = n]
                  ELSE element
    /\ reply' = Reply("insert", ok, IF ok THEN "none" ELSE "internal", 1, call[c].id)
    /\ asked' = [asked EXCEPT ![call[c].id].state = Told(ok)]
    /\ call' = [call EXCEPT ![c] = AfterRename(c)]
    /\ UNCHANGED lastId

\* The client dies between the two statements.
Crash(c) ==
    /\ call[c].at = "inserted"
    /\ asked' = [asked EXCEPT ![call[c].id].state = "failed"]
    /\ call' = [call EXCEPT ![c] = Idle]
    /\ UNCHANGED <<element, lastId, reply>>

--------------------------------------------------------------------------------
(* update_asset_element, update_asset_status_by_name, delete_asset_element *)

\* An UPDATE that finds no row, or a row that already has the values, affects
\* nothing and is reported as success.
UpdateElement(c, i, p, s, o) ==
    LET new == [element[i] EXCEPT !.parent = p, !.status = s]
        throws == ~Took(o) \/ (IsLive(i) /\ ~ParentOk(p))
        changes == IsLive(i) /\ ~throws /\ new # element[i]
        ok == Reported(o) /\ ~throws
    IN
    /\ call[c].at = "idle"
    /\ element' = IF changes THEN [element EXCEPT ![i] = new] ELSE element
    /\ reply' = Reply("update", ok, IF ok THEN "none" ELSE "internal",
                      IF changes /\ ok THEN 1 ELSE 0, i)
    /\ UNCHANGED <<lastId, call, asked>>

\* No catch block here: what the statement throws reaches the caller.
UpdateStatusByName(c, n, s, o) ==
    LET hit == {i \in Live : element[i].name = n /\ element[i].status # s}
        many == \E i, j \in hit : i # j
    IN
    /\ call[c].at = "idle"
    /\ UNCHANGED <<lastId, call, asked>>
    /\ IF s \notin {"active", "nonactive"}
       THEN /\ reply' = Reply("status", FALSE, "badinput", 0, 0)
            /\ UNCHANGED element
       ELSE /\ element' = [i \in Ids |-> IF Took(o) /\ i \in hit
                                        THEN [element[i] EXCEPT !.status = s]
                                        ELSE element[i]]
            /\ reply' = IF ~Reported(o) THEN Reply("status", FALSE, "thrown", 0, 0)
                        ELSE IF many THEN Reply("status", FALSE, "notunique", 0, 0)
                        ELSE Reply("status", TRUE, "none", 0, 0)

\* The statement throws while another row names this one as its parent.
DeleteElement(c, i, o) ==
    LET throws == ~Took(o) \/ \E j \in Live : j # i /\ element[j].parent = i
        ok == Reported(o) /\ ~throws
    IN
    /\ call[c].at = "idle"
    /\ element' = IF throws THEN element ELSE [element EXCEPT ![i] = Absent]
    /\ reply' = Reply("delete", ok, IF ok THEN "none" ELSE "internal",
                      IF ok /\ IsLive(i) THEN 1 ELSE 0, i)
    /\ UNCHANGED <<lastId, call, asked>>

--------------------------------------------------------------------------------
ExactNames == {PlainName(b) : b \in Bases} \cup
              {NumberedName(b, k) : b \in Bases, k \in Exact}
TempNames == {TempName(b, r) : b \in Bases, r \in RandValues}

Insert(c) ==
    \E p \in Parents, t \in ElementTypes \cup {NoType} :
        \/ \E n \in ExactNames \cup TempNames : InsertRefused(c, n, t, p)
        \/ \E s \in Statuses, o \in Outcomes :
              \/ \E n \in ExactNames : InsertExact(c, n, t, p, s, o)
              \/ \E b \in Bases, r \in RandValues :
                    \/ InsertTemp(c, b, t, p, s, r, o)
                    \/ InsertTempThrows(c, b, t, p, r, o)

Rename(c) == \E o \in Outcomes : RenameInserted(c, o)

Change(c) ==
    \E s \in Statuses, o \in Outcomes :
        \/ \E i \in Ids, p \in Parents : UpdateElement(c, i, p, s, o)
        \/ \E n \in ExactNames \cup TempNames : UpdateStatusByName(c, n, s, o)

Delete(c) == \E i \in Ids, o \in Outcomes : DeleteElement(c, i, o)

Next == \E c \in Clients : Insert(c) \/ Rename(c) \/ Crash(c) \/ Change(c) \/ Delete(c)

Spec == Init /\ [][Next]_vars

\* A thread inside a call runs on until the call returns, unless it crashes;
\* nobody is obliged to start a call.
FairSpec == Spec /\ \A c \in Clients : WF_vars(Rename(c))

--------------------------------------------------------------------------------
(* Properties *)

\* Types of the table, the counter, the calls and the reply; the ids a call or
\* the history speak of have been handed out.
TypeOK ==
    /\ element \in [Ids -> Row \cup {Absent}]
    /\ lastId \in 0 .. MaxId
    /\ call \in [Clients -> [at : {"idle", "inserted"}, base : Bases, id : 0 .. MaxId]]
    /\ reply \in Replies
    /\ asked \in [Ids -> [state : {"none", "pending", "ok", "failed"}, name : Name]]

\* Every row carries the name its own insert was asked for, whatever inserts,
\* deletes and updates of other clients ran between the two statements of
\* insert_into_asset_element: exactly that name once the caller was told
\* "inserted", the temporary name of the same base while the call is under
\* way, one of the two when the caller was told it failed or has died.
RowNamedAsAsked ==
    \A i \in Live :
        LET row == element[i]
            temp == row.name.kind = "temp" /\ row.name.base = asked[i].name.base
        IN
        \/ asked[i].state \in {"ok", "failed"} /\ row.name = asked[i].name
        \/ asked[i].state \in {"pending", "failed"} /\ temp

\* A row left under a temporary name is never one whose insert reported
\* success, and while its insert has not failed exactly one client is inside
\* insert_into_asset_element for it: no orphan appears without an error or a
\* crash.
TempRowHasOneOwner ==
    \A i \in Live : element[i].name.kind = "temp" =>
        \/ asked[i].state = "failed"
        \/ \E c \in Clients : /\ call[c].at = "inserted" /\ call[c].id = i
                             /\ \A d \in Clients \ {c} : call[d].id # i

NamesUnique == \A i, j \in Live : element[i].name = element[j].name => i = j

HistoryFits(i) ==
    /\ asked[i].name.kind # "temp"
    /\ (asked[i].state = "none") <=> (i > lastId)
    /\ IsLive(i) => i <= lastId
    /\ asked[i].state = "pending" =>
          \E c \in Clients : call[c].at = "inserted" /\ call[c].id = i

OwnsItsRow(c) ==
    \/ call[c] = Idle
    \/ LET i == call[c].id IN
       /\ call[c].at = "inserted"
       /\ i \in 1 .. lastId
       /\ asked[i].state = "pending"
       /\ asked[i].name = NumberedName(call[c].base, i)
       /\ IsLive(i) => ~OkName(element[i].name)
       /\ \A d \in Clients \ {c} : call[d].id # i

\* What makes the two properties above inductive: names are unique, every row
\* was handed out with an id up to lastId and has a history, and each client
\* inside insert_into_asset_element alone owns a handed-out id, still pending
\* and under the temporary name of its base if the row is still there.
CallsOwnTheirRows ==
    /\ NamesUnique
    /\ \A i \in Ids : HistoryFits(i)
    /\ \A c \in Clients : OwnsItsRow(c)

\* As long as no answer is lost with the connection, an insert that reported
\* an error has published nothing: its row, if there is one, is still under
\* the temporary name.
ErrorMeansUnpublished ==
    "lost" \notin Outcomes =>
        \A i \in Live : asked[i].state = "failed" => element[i].name.kind = "temp"

\* A started insert returns or dies; it never waits for another client.
InsertReturns ==
    \A c \in Clients : (call[c].at = "inserted") ~> (call[c].at = "idle")

\* The name readers know row i by, once it has its final one.
FinalName(i) ==
    IF IsLive(i) /\ OkName(element[i].name) THEN element[i].name ELSE Absent

Registry == INSTANCE AssetRegistry WITH
    Names <- Name,
    Unnamed <- Absent,
    published <- [i \in Ids |-> FinalName(i)],
    gone <- {i \in 1 .. lastId : ~IsLive(i)}

\* Readers of final names see a registry (AssetRegistry): the two statements
\* look like one, published names are unique, never change and ids never
\* come back.
ImplementsRegistry == Registry!RegistrySpec
================================================================================
