-------------------------------- MODULE Cabling --------------------------------
(***************************************************************************)
(* What the link table promises to everyone who reads the cabling out of   *)
(* it. A wire joins an outlet of one device with an inlet of a device; an  *)
(* outlet and an inlet are joined by one wire at most, which never         *)
(* changes; a wire is plugged in by itself, and only together with all the *)
(* others of its pair of devices, or of its destination, taken out; a      *)
(* device is not retired while a wire ends there. Batches, the names they  *)
(* are asked for, and the connections that are lost on the way are not     *)
(* visible here; AssetLinks refines this module.                           *)
(***************************************************************************)
CONSTANTS
    Assets,     \* identifiers of assets
    Devices     \* those a wire can join

VARIABLES
    present,    \* the assets that are there
    retired,    \* those that were, and do not come back
    wires       \* the wires that are plugged in

cvars == <<present, retired, wires>>

Sockets(w) == <<w.src, w.out, w.dest, w.in>>
Between(sources, dest) == {w \in wires : w.src \in sources /\ w.dest = dest}

CablingInit == present = {} /\ retired = {} /\ wires = {}

\* One wire, between sockets that are free, of devices that are there.
PlugIn(w) ==
    /\ {w.src, w.dest} \subseteq present \cap Devices
    /\ \A v \in wires : Sockets(v) # Sockets(w)
    /\ wires' = wires \cup {w}
    /\ UNCHANGED <<present, retired>>

\* All the wires from some source, or from every source, to a device.
Unplug(sources, dest) ==
    /\ wires' = wires \ Between(sources, dest)
    /\ UNCHANGED <<present, retired>>

Appear(e) ==
    /\ e \notin present \cup retired
    /\ present' = present \cup {e}
    /\ UNCHANGED <<retired, wires>>

Retire(e) ==
    /\ e \in present
    /\ \A w \in wires : e \notin {w.src, w.dest}
    /\ present' = present \ {e} /\ retired' = retired \cup {e}
    /\ UNCHANGED wires

CablingNext ==
    \/ \E w \in wires' \ wires : PlugIn(w)
    \/ \E d \in Assets : Unplug(Assets, d) \/ \E s \in Assets : Unplug({s}, d)
    \/ \E e \in Assets : Appear(e) \/ Retire(e)

CablingSpec == CablingInit /\ [][CablingNext]_cvars
================================================================================
