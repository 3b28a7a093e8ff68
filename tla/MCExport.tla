------------------------------ MODULE MCExport ------------------------------
(***************************************************************************)
(* Instances of Export: machines each with something get or apply treats   *)
(* in a way of its own.                                                    *)
(***************************************************************************)
EXTENDS ExportProperties

Says(n) == [number |-> n, rest |-> Plain]
Unset == [k \in Settings |-> None]
NoNets == [s \in NetSlots |-> None]
NoDrives == [s \in DriveSlots |-> None]
NoKeys == [keys |-> {}, newline |-> FALSE]

Volume(size) == [kind |-> "disk", storage |-> "fast", size |-> size, cache |-> None,
                 format |-> None, rest |-> Plain]
Card(bridge, tag, rest) ==
    [model |-> "e1000", mac |-> "old", bridge |-> bridge, tag |-> tag, rest |-> rest]

\* Firewall on the NIC, flags on the cpu, tags out of order, an SSD option
\* on the disk, a cd-rom beside it.
Usual ==
    [settings |-> [Unset EXCEPT !["cores"] = Says(2), !["memory"] = Says(1),
                                !["cpu"] = [number |-> 1, rest |-> "extra"],
                                !["tags"] = [number |-> 1, rest |-> "extra"]],
     onboot |-> 0,
     nets |-> [NoNets EXCEPT ![0] = Card("br", 5, "extra"), ![1] = Card("br", None, "extra")],
     drives |-> [NoDrives EXCEPT ![0] = [Volume(8) EXCEPT !.rest = "extra", !.cache = "wb"],
                                 ![2] = [Volume(4) EXCEPT !.kind = "cdrom"]],
     sshkeys |-> [keys |-> {[id |-> 1, mark |-> "+"]}, newline |-> FALSE],
     power |-> "running"]

Boots == [Usual EXCEPT !.onboot = 1, !.sshkeys.keys = {}]
Sockets == [Boots EXCEPT !.settings["sockets"] = Says(2), !.power = "stopped",
                         !.sshkeys.keys = {[id |-> 1, mark |-> "%2B"]}]
Odd == [Usual EXCEPT !.drives[0] = [Volume(7) EXCEPT !.format = "raw"], !.onboot = None,
                     !.sshkeys = [keys |-> {[id |-> 1, mark |-> "%20"]}, newline |-> TRUE]]
TwoKeys == [Sockets EXCEPT !.sshkeys.keys = {[id |-> 1, mark |-> "+"], [id |-> 2, mark |-> "%2B"]}]
Bare == [settings |-> Unset, onboot |-> None, nets |-> NoNets, drives |-> NoDrives,
         sshkeys |-> [keys |-> {[id |-> 1, mark |-> "none"]}, newline |-> TRUE],
         power |-> "stopped"]
Unbridged == [Usual EXCEPT !.nets[0].bridge = None]
PassedThrough == [Usual EXCEPT !.drives[0].storage = None]

AllMachines == {Usual, Boots, Sockets, TwoKeys, Odd, Bare, Unbridged, PassedThrough}
Escapes == {[Boots EXCEPT !.sshkeys.keys = {[id |-> 1, mark |-> "%2B"]}]}

Wanted(size) == [storage |-> "fast", size |-> size, cache |-> None, format |-> None]
ByHand ==
    [settings |-> [k \in Settings |-> CASE k = "cores" -> 4 [] k = "memory" -> 1 [] OTHER -> None],
     run |-> "Halted",
     networks |-> [NoNets EXCEPT ![0] = [bridge |-> "br", model |-> None, tag |-> 5]],
     disks |-> [NoDrives EXCEPT ![0] = [Wanted(12) EXCEPT !.cache = "no"],
                                ![1] = [Wanted(8) EXCEPT !.format = "raw"]],
     sshkeys |-> {[id |-> 2, mark |-> "plus"]}]
HandWritten == {ByHand, [ByHand EXCEPT !.disks[0] = Wanted(9), !.run = "Always"]}

EditNICs == {[bridge |-> "lan", model |-> "e1000", tag |-> None],
             [bridge |-> "br", model |-> None, tag |-> 6]}
EditDisks == {Wanted(12), [Wanted(8) EXCEPT !.cache = "no"]}
EditKeys == {[id |-> 2, mark |-> "plus"]}
=============================================================================
