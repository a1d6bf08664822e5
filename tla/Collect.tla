------------------------------ MODULE Collect ------------------------------
(***************************************************************************)
(* Where a fingerprint comes from: the four providers, collect_all of      *)
(* provider.rs, and the truncation by its callers.  A machine is collected *)
(* at two boots: the firmware and the kernel may spell its strings         *)
(* otherwise the second time, or it may be another machine.                *)
(*                                                                         *)
(* A text is a sequence of character codes.                                *)
(***************************************************************************)
EXTENDS Smbios

CONSTANTS
  MAX_SHARES,    (* most identifiers an enrollment takes (24 in derive.rs) *)
  BLACKLIST,     (* texts firmware makers leave in place of a serial       *)
  Machines,      (* records: chassis (names the hardware), structures (of  *)
                 (* its SMBIOS table), cpus, dmi, usb                      *)
  Bare           (* the machine of which only the table matters            *)

(* Tables as firmware writes them, and texts made of character codes. *)
Plausible(m) ==
  /\ m.structures \in Seq(Range(m.structures))
  /\ \A s \in Range(m.structures) : WellFormed(s)
  /\ IsFiniteSet(m.cpus) /\ \A c \in m.cpus : c.vendor \in Seq(Nat)
  /\ m.dmi.board_serial \in Seq(Nat) /\ m.dmi.product_uuid \in Seq(Nat)
  /\ IsFiniteSet(m.usb)
  /\ \A d \in m.usb : {d.vid, d.pid, d.serial} \subseteq Seq(Nat)

ASSUME CollectAssumption ==
  /\ MAX_SHARES \in Nat /\ Machines # {} /\ Bare \notin Machines
  /\ \A m \in Machines \cup {Bare} : Plausible(m) /\ m.chassis # "none"
  /\ \A m \in Machines : m.structures # <<>>

VARIABLES
  hw,            (* the machine                                            *)
  source,        (* the provider whose turn it is, or "done"               *)
  pending,       (* what it has not read yet                               *)
  set,           (* the BTreeSet of collect_all                            *)
  all, ids,      (* what collect_all returns; what the caller enrolls      *)
  first          (* chassis and collect_all of the boot before, or NoBoot  *)

vars == <<walk, hw, source, pending, set, all, ids, first>>

NoBoot == [chassis |-> "none", all |-> <<>>]

(* IdClass, in the order of its variants. *)
ClassOrder == <<"ram_serial", "cpu", "board_serial", "product_uuid", "usb_device">>
Rank(class) == CHOOSE n \in DOMAIN ClassOrder : ClassOrder[n] = class
-----------------------------------------------------------------------------
Space == 32
Zero  == 48    (* "0" *)
LowF  == 102   (* "f" *)
Separators == {45, 58, 46, 95, Space}     (* - : . _ *)

Lower(c) == IF c \in 65..90 THEN c + 32 ELSE c

(* split_whitespace and join: the runs of spaces inside become one. *)
Collapse(text) ==
  LET keep(p) == \/ text[p] # Space
                 \/ /\ p > 1 /\ text[p - 1] # Space
                    /\ \E q \in p + 1 .. Len(text) : text[q] # Space
      kept[p \in 0 .. Len(text)] ==
        IF p = 0 THEN <<>>
        ELSE IF keep(p) THEN Append(kept[p - 1], text[p]) ELSE kept[p - 1]
  IN kept[Len(text)]

(* Only the character c, once the separators are left out. *)
Only(c, v) == \A p \in DOMAIN v : v[p] \in Separators \cup {c}

Junk(v) ==
  \/ Len(v) < 2
  \/ \A p \in DOMAIN v : v[p] = v[1]
  \/ v \in BLACKLIST
  \/ Only(Zero, v) \/ Only(LowF, v)

Lowered(text) == [p \in DOMAIN text |-> Lower(text[p])]

(* Mutant: the case is kept. *)
CollapseOnly(text) == Collapse(text)

(* What canonicalize makes of a text, before it looks for junk. *)
Canonical(text) == Lowered(Collapse(text))

(* Identifier::new: the identifier, or none. *)
Identifiers(class, texts) ==
  {[class |-> class, value |-> Canonical(t)] : t \in {t \in texts : ~Junk(Canonical(t))}}

(* cpuid: vendor, family and features; bits the kernel or a hypervisor      *)
(* sets are masked.  The digits of a register stand as its 32 bits.         *)
Bits(register) == [n \in 1..32 |-> IF 32 - n \in register THEN 1 ELSE 0]
Unmasked       == (0..13) \cup (16..27)
CpuText(c) ==
  c.vendor \o <<59>> \o Bits(c.eax \cap Unmasked)
           \o <<59>> \o Bits(c.ecx \ {27, 31}) \o <<58>> \o Bits(c.edx)

(* read_attr: trimmed, in lower case; <<>> when there is no such file. *)
Attr(text) ==
  LET inside == {p \in DOMAIN text : text[p] # Space} IN
  IF inside = {} THEN <<>> ELSE Lowered(SubSeq(text, Min(inside), Max(inside)))

(* Mutant: the serial is judged with the model in front of it. *)
JunkInDisguise(d) ==
  IF d.interface \/ <<>> \in {Attr(d.vid), Attr(d.pid), Attr(d.serial)}
    THEN {}
    ELSE Identifiers("usb_device",
           {Attr(d.vid) \o <<58>> \o Attr(d.pid) \o <<58>> \o Canonical(Attr(d.serial))})

(* A directory of the USB bus: interfaces have no identity, and the serial  *)
(* must pass on its own.                                                    *)
UsbIdentifiers(d) ==
  IF \/ d.interface \/ <<>> \in {Attr(d.vid), Attr(d.pid), Attr(d.serial)}
     \/ Junk(Canonical(Attr(d.serial)))
    THEN {}
    ELSE Identifiers("usb_device",
           {Attr(d.vid) \o <<58>> \o Attr(d.pid) \o <<58>> \o Canonical(Attr(d.serial))})

(* Ord for String. *)
TextLess(a, b) ==
  \/ IsStrictPrefix(a, b)
  \/ \E n \in DOMAIN a \cap DOMAIN b :
       a[n] < b[n] /\ \A m \in 1 .. n - 1 : a[m] = b[m]

(* Mutant: the class does not count. *)
ValueLess(x, y) == TextLess(x.value, y.value)

(* Ord for Identifier: the class, then the value. *)
IdLess(x, y) ==
  \/ Rank(x.class) < Rank(y.class)
  \/ x.class = y.class /\ TextLess(x.value, y.value)

(* The order in which a BTreeSet is read. *)
InOrder(S) ==
  [n \in 1 .. Cardinality(S) |->
    CHOOSE x \in S : Cardinality({y \in S : IdLess(y, x)}) = n - 1]
-----------------------------------------------------------------------------
NothingYet == source = "smbios" /\ pending = {} /\ set = {} /\ all = <<>> /\ ids = <<>>

OwnTable == Start(Encodings(hw.structures), hw.structures, TRUE)

Init ==
  /\ NothingYet /\ first = NoBoot
  /\ \/ hw \in Machines /\ OwnTable
     \/ hw = Bare /\ AnyTable

(* collect_all: the providers in turn, into a set. *)
WalkTable ==
  /\ source = "smbios" /\ Walk
  /\ UNCHANGED <<hw, source, pending, set, all, ids, first>>

CollectRam ==
  /\ source = "smbios" /\ at = "done"
  /\ set' = set \cup Identifiers("ram_serial", Range(out))
  /\ source' = "cpuid"
  /\ UNCHANGED <<walk, hw, pending, all, ids, first>>

(* One cpu, whatever their number; none: a machine that is no x86. *)
CollectCpu ==
  /\ source = "cpuid"
  /\ set' = set \cup Identifiers("cpu", {CpuText(c) : c \in hw.cpus})
  /\ source' = "dmi-id"
  /\ UNCHANGED <<walk, hw, pending, all, ids, first>>

CollectDmi ==
  /\ source = "dmi-id"
  /\ set' = set \cup Identifiers("board_serial", {hw.dmi.board_serial})
                \cup Identifiers("product_uuid", {hw.dmi.product_uuid})
  /\ source' = "usb" /\ pending' = hw.usb
  /\ UNCHANGED <<walk, hw, all, ids, first>>

(* The directories, in whatever order the kernel lists them. *)
CollectUsb ==
  /\ source = "usb"
  /\ \E d \in pending :
       /\ set' = set \cup UsbIdentifiers(d)
       /\ pending' = pending \ {d}
  /\ UNCHANGED <<walk, hw, source, all, ids, first>>

(* The set is read in its order; the callers truncate the list. *)
CollectEnd ==
  /\ source = "usb" /\ pending = {}
  /\ source' = "done"
  /\ all' = InOrder(set)
  /\ ids' = SubSeq(all', 1, Min({MAX_SHARES, Len(all')}))
  /\ UNCHANGED <<walk, hw, pending, set, first>>

Program == WalkTable \/ CollectRam \/ CollectCpu \/ CollectDmi \/ CollectUsb \/ CollectEnd

(* Another boot, of this machine or of another one. *)
NextBoot ==
  /\ source = "done" /\ first = NoBoot /\ hw # Bare
  /\ first' = [chassis |-> hw.chassis, all |-> all]
  /\ hw' \in Machines
  /\ source' = "smbios" /\ pending' = {} /\ set' = {} /\ all' = <<>> /\ ids' = <<>>
  /\ list' = hw'.structures /\ data' = Encodings(list') /\ whole' = TRUE
  /\ at' = "structure" /\ i' = 0 /\ j' = 0 /\ strings' = <<>> /\ out' = <<>>

Next == Program \/ NextBoot

Spec == Init /\ [][Next]_vars

(* One thread that reads files and waits for nothing; boots just happen. *)
FairSpec == Spec /\ WF_vars(Program)
-----------------------------------------------------------------------------
(* Properties. *)

(* Every collection comes to an end: an SMBIOS table on which the walk does *)
(* not advance would hang the boot before the rescue stick is looked for.   *)
CollectEnds == <>[](source = "done")

(* "l'ordre du resultat est deterministe d'un boot a l'autre": the same     *)
(* hardware gives the same list, however its strings are spaced and spelled *)
(* this time, whatever order USB devices are listed in and whichever bits   *)
(* the kernel sets in the processor.                                        *)
StableFingerprint ==
  source = "done" /\ first.chassis = hw.chassis => all = first.all

(* A value that does not tell machines apart is no identifier: two machines *)
(* of one model have no identifier in common but that of their processor,   *)
(* however many placeholders their makers left, behind vid:pid or not.      *)
NoFalseKin ==
  source = "done" /\ first.chassis \notin {"none", hw.chassis} =>
    \A id \in Range(all) \cap Range(first.all) : id.class = "cpu"

(* The truncation costs USB devices, the components that come and go, while *)
(* there are any: a serial soldered to the machine is dropped only when no  *)
(* USB device is enrolled.                                                  *)
UsbGoesFirst ==
  source = "done" =>
    \A dropped \in Range(all) \ Range(ids), kept \in Range(ids) :
      kept.class = "usb_device" => dropped.class = "usb_device"
=============================================================================
