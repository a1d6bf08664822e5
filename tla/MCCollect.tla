----------------------------- MODULE MCCollect -----------------------------
(***************************************************************************)
(* Instances of Collect for TLC.  Tables: the serial's string number comes *)
(* right after the header (offset 4, 24 in the code); memory devices with  *)
(* one or two strings, a number out of range, none, or no room for it; a   *)
(* structure of type 0, whose first byte is a NUL too; the end of table.   *)
(* Machines: one spelled in two ways, another of the same model, one       *)
(* without a processor's identity and with more identifiers than shares.   *)
(***************************************************************************)
EXTENDS Collect

Structure(type, area, list_of_strings) ==
  [type |-> type, area |-> area, strings |-> list_of_strings]

MCStructures ==
  { Structure(MemoryDevice, <<1>>, <<<<65>>>>),
    Structure(MemoryDevice, <<2>>, <<<<65>>, <<66, 66>>>>),
    Structure(MemoryDevice, <<2>>, <<<<66>>>>),
    Structure(MemoryDevice, <<1, 0>>, <<>>),
    Structure(MemoryDevice, <<>>, <<<<65>>>>),
    Structure(0, <<>>, <<>>),
    Structure(1, <<1>>, <<<<17>>>>),
    Structure(EndOfTable, <<>>, <<>>) }

MCBytes == {0, 1, 4, 5, 17, 127}

(* "ab", " A  B ", ...; "na" and "0a" are placeholders. *)
MCBlacklist == {<<110, 97>>, <<48, 97>>}

Memory(serials) ==
  [n \in 1 .. Len(serials) + 1 |->
     IF n > Len(serials) THEN Structure(EndOfTable, <<>>, <<>>)
                         ELSE Structure(MemoryDevice, <<1>>, <<serials[n]>>)]

Cpu(ecx) == [vendor |-> <<65, 77>>, eax |-> {3, 15, 20}, ecx |-> ecx, edx |-> {0}]
Dmi(serial, uuid) == [board_serial |-> serial, product_uuid |-> uuid]
Usb(serial) ==
  [interface |-> FALSE, vid |-> <<49, 50>>, pid |-> <<48, 48>>, serial |-> serial]

Tower ==
  [chassis |-> "tower",
   structures |-> Memory(<<<<65, 49>>, <<65, 32, 50>>, <<78, 65>>>>),
   cpus |-> {Cpu({1, 27})},
   dmi |-> Dmi(<<98, 49, 32>>, <<48, 45, 48>>),
   usb |-> {Usb(<<117, 49>>), Usb(<<48, 65>>),
            [Usb(<<117, 50>>) EXCEPT !.interface = TRUE],
            [Usb(<<117, 51>>) EXCEPT !.pid = <<>>]}]

(* The same, spelled otherwise; the devices are listed in any order. *)
TowerAgain ==
  [Tower EXCEPT !.structures = Memory(<<<<97, 32, 32, 50>>, <<97, 49>>, <<110, 97>>>>),
                !.cpus = {Cpu({1, 31})},
                !.dmi = Dmi(<<66, 49>>, <<>>),
                !.usb = {Usb(<<32, 85, 49>>), Usb(<<48, 97>>)}]

Sister ==
  [chassis |-> "sister",
   structures |-> Memory(<<<<67, 49>>, <<70, 70>>, <<78, 65>>>>),
   cpus |-> {Cpu({1})},
   dmi |-> Dmi(<<98, 50>>, <<48, 58, 48>>),
   usb |-> {Usb(<<48, 65>>), Usb(<<102, 58, 70>>), Usb(<<117, 50>>), Usb(<<117, 53>>)}]

Board ==
  [chassis |-> "board", structures |-> Memory(<<<<100, 49>>>>), cpus |-> {},
   dmi |-> Dmi(<<122, 49>>, <<122, 50>>),
   usb |-> {Usb(<<117, 54>>), Usb(<<117, 55>>)}]

MCMachines == {Tower, TowerAgain, Sister, Board}
MCBare == [chassis |-> "bare", structures |-> <<>>, cpus |-> {},
           dmi |-> Dmi(<<>>, <<>>), usb |-> {}]
=============================================================================
