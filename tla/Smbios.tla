------------------------------- MODULE Smbios -------------------------------
(***************************************************************************)
(* parse_type17_serials() of providers/smbios.rs: the walk over the SMBIOS *)
(* structure table of the firmware, for the serial numbers of the memory   *)
(* devices.  The table is a sequence of bytes, which the code numbers from *)
(* 0.  It is what a list of structures encodes to, cut off anywhere, or    *)
(* any bytes at all.                                                       *)
(***************************************************************************)
EXTENDS Integers, SequencesExt

CONSTANTS
  TYPE17_SERIAL_OFFSET, (* where the number of the serial's string is      *)
  Structures,           (* what a list of structures is made of            *)
  MaxStructures,        (* bound: its length                               *)
  Bytes,                (* what a table that encodes no list is made of    *)
  MaxBytes              (* bound: its length                               *)

MemoryDevice == 17
EndOfTable   == 127

Octet == 0..255

(* What the SMBIOS specification asks of a structure: the length of its     *)
(* formatted area fits a byte, and no string of it is empty or holds a NUL. *)
WellFormed(s) ==
  /\ s.type \in Octet /\ s.area \in Seq(Octet) /\ 4 + Len(s.area) \in Octet
  /\ s.strings \in Seq(Seq(Octet \ {0}))
  /\ \A n \in DOMAIN s.strings : s.strings[n] # <<>>

ASSUME SmbiosAssumption ==
  /\ TYPE17_SERIAL_OFFSET \in Nat \ (0..3)
  /\ MaxStructures \in Nat /\ MaxBytes \in Nat /\ Bytes \subseteq Octet
  /\ \A s \in Structures : WellFormed(s)

VARIABLES
  data,     (* the table                                                   *)
  list,     (* the structures it encodes, <<>> for any bytes               *)
  whole,    (* it is not cut off                                           *)
  at,       (* "structure", "strings", "record", "done"                    *)
  i, j,     (* the structure looked at; how far the walk has read          *)
  strings,  (* the strings of that structure                               *)
  out       (* the serial numbers                                          *)

table == <<data, list, whole>>
walk  == <<table, at, i, j, strings, out>>

Byte(p) == data[p + 1]
Size    == Len(data)
IsNul(p) == p < Size /\ Byte(p) = 0

(* The SMBIOS specification: type, length, handle, formatted area, strings  *)
(* each ended by a NUL, and one more NUL; two when there is no string.      *)
Encoding(s) ==
  <<s.type, 4 + Len(s.area), 0, 0>> \o s.area
    \o FlattenSeq([n \in DOMAIN s.strings |-> Append(s.strings[n], 0)])
    \o (IF s.strings = <<>> THEN <<0, 0>> ELSE <<0>>)

Lists == UNION {[1..n -> Structures] : n \in 1..MaxStructures}
-----------------------------------------------------------------------------
(* The walk starts on a table. *)
Start(bytes, l, complete) ==
  /\ data = bytes /\ list = l /\ whole = complete
  /\ at = "structure" /\ i = 0 /\ j = 0 /\ strings = <<>> /\ out = <<>>

Encodings(l) == FlattenSeq([n \in DOMAIN l |-> Encoding(l[n])])

AnyTable ==
  \/ \E l \in Lists : LET all == Encodings(l) IN
       \E cut \in 0 .. Len(all) : Start(SubSeq(all, 1, cut), l, cut = Len(all))
  \/ \E n \in 0..MaxBytes : \E bytes \in [1..n -> Bytes] :
       Start(bytes, <<>>, FALSE)

stype == Byte(i)
flen  == Byte(i + 1)

(* The header and the formatted area are there. *)
Readable == i + 4 <= Size /\ flen >= 4 /\ i + flen <= Size

(* Mutant: the length is believed. *)
BeginUnchecked ==
  /\ at = "structure" /\ i + 4 <= Size
  /\ at' = "strings" /\ j' = i + flen /\ strings' = <<>>
  /\ UNCHANGED <<table, i, out>>

BeginStructure ==
  /\ at = "structure" /\ Readable
  /\ at' = "strings" /\ j' = i + flen /\ strings' = <<>>
  /\ UNCHANGED <<table, i, out>>

StopWalk ==
  /\ at = "structure" /\ ~Readable
  /\ at' = "done"
  /\ UNCHANGED <<table, i, j, strings, out>>

(* Mutant: the NUL that ends the strings is left to the next structure. *)
LeaveLastNul ==
  /\ at = "strings" /\ j < Size /\ ~IsNul(j)
  /\ \E e \in j .. Size - 1 :
       /\ IsNul(e) /\ \A p \in j .. e - 1 : ~IsNul(p)
       /\ strings' = Append(strings, SubSeq(data, j + 1, e))
       /\ j' = e + 1
       /\ at' = IF IsNul(e + 1) THEN "record" ELSE "strings"
  /\ UNCHANGED <<table, i, out>>

(* A string up to its NUL; a second NUL ends the set.  Bytes are taken for  *)
(* characters: all of them are valid UTF-8 text here.                       *)
ReadString ==
  /\ at = "strings" /\ j < Size /\ ~IsNul(j)
  /\ \E e \in j .. Size - 1 :
       /\ IsNul(e) /\ \A p \in j .. e - 1 : ~IsNul(p)
       /\ strings' = Append(strings, SubSeq(data, j + 1, e))
       /\ IF IsNul(e + 1) THEN j' = e + 2 /\ at' = "record"
                          ELSE j' = e + 1 /\ at' = "strings"
  /\ UNCHANGED <<table, i, out>>

(* No NUL before the end of the table: the string is dropped. *)
Unterminated ==
  /\ at = "strings" /\ \A p \in j .. Size - 1 : ~IsNul(p)
  /\ j' = Size /\ at' = "record"
  /\ UNCHANGED <<table, i, strings, out>>

EmptySet ==
  /\ at = "strings" /\ IsNul(j)
  /\ j' = IF IsNul(j + 1) THEN j + 2 ELSE j + 1
  /\ at' = "record"
  /\ UNCHANGED <<table, i, strings, out>>

(* Mutant: the walk stays where it is. *)
RecordInPlace ==
  /\ at = "record"
  /\ out' = out
  /\ at' = IF stype = EndOfTable THEN "done" ELSE "structure"
  /\ UNCHANGED <<table, i, j, strings>>

(* The serial number of a memory device; then the next structure. *)
Record ==
  /\ at = "record"
  /\ LET n == Byte(i + TYPE17_SERIAL_OFFSET) IN
     out' = IF /\ stype = MemoryDevice /\ flen > TYPE17_SERIAL_OFFSET
               /\ n \in DOMAIN strings
              THEN Append(out, strings[n]) ELSE out
  /\ IF stype = EndOfTable \/ j <= i
       THEN at' = "done" /\ UNCHANGED i
       ELSE at' = "structure" /\ i' = j
  /\ UNCHANGED <<table, j, strings>>

Walk ==
  BeginStructure \/ StopWalk \/ ReadString \/ Unterminated \/ EmptySet \/ Record
-----------------------------------------------------------------------------
(* Properties. *)

(* "jamais de panic": whatever lengths the firmware announces, the walk     *)
(* stays inside the table, and the formatted area it slices is there.       *)
InBounds ==
  /\ i \in 0..Size
  /\ at \in {"strings", "record"} => i + flen <= Size /\ j \in i + flen .. Size

(* The serial numbers of a list: those of its memory devices, up to the     *)
(* End-of-Table structure, by their string numbers.                         *)
HasSerial(s) ==
  /\ s.type = MemoryDevice /\ 4 + Len(s.area) > TYPE17_SERIAL_OFFSET
  /\ s.area[TYPE17_SERIAL_OFFSET - 3] \in DOMAIN s.strings

Counts(l, n) == HasSerial(l[n]) /\ \A m \in 1 .. n - 1 : l[m].type # EndOfTable

SerialsUpTo(l) ==
  LET upTo[n \in 0 .. Len(l)] ==
        IF n = 0 THEN <<>>
        ELSE IF Counts(l, n)
          THEN Append(upTo[n - 1], l[n].strings[l[n].area[TYPE17_SERIAL_OFFSET - 3]])
          ELSE upTo[n - 1]
  IN upTo

Serials(l) == SerialsUpTo(l)[Len(l)]

(* The walk gives back the serial numbers the firmware wrote, in order and  *)
(* each from its own structure; of a table that is cut off, those it had    *)
(* reached: never another string, which would be enrolled as a component.   *)
ExactSerials ==
  list # <<>> => /\ IsPrefix(out, Serials(list))
                 /\ at = "done" /\ whole => out = Serials(list)
=============================================================================
