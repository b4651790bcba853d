------------------------------ MODULE Discovered ------------------------------
(***************************************************************************)
(* The discovered devices (t_bios_discovered_device) and their relation to *)
(* assets (t_bios_monitor_asset_relation): the insert of a device, which   *)
(* answers with its id whether or not it was there, the insert and the     *)
(* delete of relations, and the way from an asset to its device.  Each     *)
(* call is one SQL statement that commits by itself.                       *)
(*                                                                         *)
(* External: the unique key on the name of a device, its auto_increment    *)
(* counter, which an insert spends also when the name is there, LAST_      *)
(* INSERT_ID with and without argument, and the foreign keys of the        *)
(* relation.  A relation inserted twice makes two equal rows, which the    *)
(* set of rows keeps as one: no statement counts them, the delete takes    *)
(* all rows of an asset, the query takes any one, and the foreign keys ask *)
(* only whether there is one.                                              *)
(***************************************************************************)
EXTENDS Naturals

CONSTANTS
    Elements,   \* asset ids that are ever used
    DeviceNames,\* the names discovered devices are inserted under
    DeviceTypes,\* the ids of device types
    MaxDevice,  \* bound: the last id the counter hands out
    Outcomes,   \* what may happen to a statement, as in AssetElement
    Absent      \* stands for "no such row"

Device == [id : 1 .. MaxDevice, type : DeviceTypes]

VARIABLES
    asset,      \* per id: not inserted yet, in t_bios_asset_element, deleted
    device,     \* t_bios_discovered_device, by name
    spent,      \* the ids the counter has handed out are 1 .. spent
    relation,   \* t_bios_monitor_asset_relation, a set of <<device, asset>>
    told,       \* for the properties: the ids answered per device name
    reply       \* what the last call answered

vars == <<asset, device, spent, relation, told, reply>>

Reply(op, ok, id) == [op |-> op, ok |-> ok, id |-> id]

Init ==
    /\ asset = [e \in Elements |-> "unborn"]
    /\ device = [n \in DeviceNames |-> Absent]
    /\ spent = 0
    /\ relation = {}
    /\ told = [n \in DeviceNames |-> {}]
    /\ reply = Reply("none", TRUE, 0)

Here(e) == e \in Elements /\ asset[e] = "here"
Known == {n \in DeviceNames : device[n] # Absent}
DeviceIds == {device[n].id : n \in Known}
Took(o) == o \in {"done", "lost"}
Reported(o) == o = "done"

\* What conn.lastInsertId () answers when the name was there: the update branch
\* sets it to the id of the row (variant: without that it is the id spent).
IdSpent(n) == spent + 1
IdOfRow(n) == device[n].id

\* insert_into_monitor_device: a name that is there keeps its type, too.
InsertDevice(n, t, o) ==
    LET id == IF n \in Known THEN IdOfRow(n) ELSE spent + 1 IN
    /\ spent < MaxDevice
    /\ IF Took(o)
       THEN /\ spent' = spent + 1
            /\ device' = IF n \in Known THEN device
                         ELSE [device EXCEPT ![n] = [id |-> id, type |-> t]]
       ELSE UNCHANGED <<spent, device>>
    /\ IF Reported(o)
       THEN /\ reply' = Reply("device", TRUE, id)
            /\ told' = [told EXCEPT ![n] = @ \cup {id}]
       ELSE reply' = Reply("device", FALSE, 0) /\ UNCHANGED told
    /\ UNCHANGED <<asset, relation>>

\* The foreign keys of a relation (variant: that of the asset is missing).
DeviceKnown(m, e) == m \in DeviceIds
ReferencesOk(m, e) == m \in DeviceIds /\ Here(e)

\* insert_into_monitor_asset_relation.
InsertRelation(m, e, o) ==
    LET in == m # 0 /\ e # 0 /\ ReferencesOk(m, e) IN
    /\ relation' = IF in /\ Took(o) THEN relation \cup {<<m, e>>} ELSE relation
    /\ reply' = Reply("relation", in /\ Reported(o), 0)
    /\ UNCHANGED <<asset, device, spent, told>>

\* delete_monitor_asset_relation_by_a (variant: by the device with that id).
RowsOfDevice(m) == {p \in relation : p[1] = m}
RowsOfAsset(e) == {p \in relation : p[2] = e}
DeleteRelation(e, o) ==
    /\ relation' = IF Took(o) THEN relation \ RowsOfAsset(e) ELSE relation
    /\ reply' = Reply("delete", Reported(o), 0)
    /\ UNCHANGED <<asset, device, spent, told>>

\* convert_asset_to_monitor: the device of one row, 0 if there is none.
Convert(e, o) ==
    /\ \/ /\ Reported(o)
          /\ \E m \in IF RowsOfAsset(e) = {} THEN {0} ELSE {p[1] : p \in RowsOfAsset(e)} :
                reply' = Reply("convert", TRUE, m)
       \/ ~Reported(o) /\ reply' = Reply("convert", FALSE, 0)
    /\ UNCHANGED <<asset, device, spent, relation, told>>

AssetInserted(e) ==
    /\ asset[e] = "unborn"
    /\ asset' = [asset EXCEPT ![e] = "here"]
    /\ reply' = Reply("asset", TRUE, 0)
    /\ UNCHANGED <<device, spent, relation, told>>

\* The foreign key keeps an asset that a relation names.
Kept(e) == \E p \in relation : p[2] = e
AssetDeleted(e) ==
    /\ Here(e) /\ ~Kept(e)
    /\ asset' = [asset EXCEPT ![e] = "gone"]
    /\ reply' = Reply("asset", TRUE, 0)
    /\ UNCHANGED <<device, spent, relation, told>>

Insert ==
    \E o \in Outcomes :
        \/ \E n \in DeviceNames, t \in DeviceTypes : InsertDevice(n, t, o)
        \/ \E m \in 0 .. MaxDevice, e \in Elements \cup {0} : InsertRelation(m, e, o)
Remove == \E e \in Elements, o \in Outcomes : DeleteRelation(e, o)
Query == \E e \in Elements, o \in Outcomes : Convert(e, o)
Asset == \E e \in Elements : AssetInserted(e) \/ AssetDeleted(e)

Next == Insert \/ Remove \/ Query \/ Asset

Spec == Init /\ [][Next]_vars

--------------------------------------------------------------------------------
(* Properties *)

\* Types of the tables; a relation joins a known device with an asset that is there.
TypeOK ==
    /\ asset \in [Elements -> {"unborn", "here", "gone"}]
    /\ device \in [DeviceNames -> Device \cup {Absent}]
    /\ spent \in 0 .. MaxDevice /\ DeviceIds \subseteq 1 .. spent
    /\ \A p \in relation : p[1] \in DeviceIds /\ Here(p[2])
    /\ reply.ok \in BOOLEAN

\* However often a device is inserted again, under whatever type and after whatever
\* lost answers, all callers are told one id for it, and no other device has it.
OneIdPerDevice ==
    \A n \in DeviceNames : \A x \in told[n] :
        n \in Known /\ x = device[n].id /\ \A m \in Known \ {n} : x # device[m].id
================================================================================
