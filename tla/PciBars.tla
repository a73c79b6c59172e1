------------------------------- MODULE PciBars -------------------------------
(***************************************************************************)
(* The base address registers of a PCI function while the kernel finds a   *)
(* disk on the bus.  Two scanners do it: enumerate_pci, which sizes the    *)
(* BARs with PciRoot::bar_info, gives the unassigned ones addresses from a *)
(* PciRangeAllocator and builds a PciTransport from the regions that the   *)
(* virtio capabilities name, and pci_init, which sizes them with           *)
(* BAR::decode of dep_pci and uses the addresses the firmware left.        *)
(*                                                                         *)
(* A BAR is sized by writing all ones to it and reading back the address   *)
(* bits the hardware keeps, so between two configuration writes it holds   *)
(* an address nobody chose.  Every configuration write is a step.          *)
(* Registers are words of Word values; a memory BAR keeps the bits above   *)
(* its size, and its flags (16 values) are kept apart from its address.    *)
(***************************************************************************)
EXTENDS Integers, FiniteSets

CONSTANTS Bars,     \* BARs of the function (6 in the hardware)
          Word,     \* values of a configuration word (2^32)
          Sizes,    \* sizes of a memory BAR
          PciBase,  \* VIRT_PCI_BASE
          PciSize,  \* VIRT_PCI_SIZE
          Outside,  \* address the firmware may have given a BAR
          Inside    \* the firmware's address may lie in the window

VARIABLES scanner,  \* "virtio" or "dep_pci"
          layout,   \* what the hardware has: kind and size of each BAR
          bar,      \* the address each BAR register holds
          decode,   \* Command::MEMORY_SPACE
          current,  \* PciRangeAllocator.current
          pc,       \* what bar_info was called for
          step,     \* where in bar_info
          idx,      \* bar_index
          saved,    \* command_orig, bar_orig, bar_top_orig and what was read
          found,    \* the BarInfos returned
          regions   \* the regions PciTransport::new has mapped

vars == <<scanner, layout, bar, decode, current, pc, step, idx, saved, found,
          regions>>

Slots == 0 .. Bars - 1
None == [kind |-> "none", size |-> 0, address |-> 0]
Kinds == {[kind |-> "none", size |-> 0], [kind |-> "top", size |-> 1],
          [kind |-> "io", size |-> 16]}
         \cup [kind : {"mem32", "mem64"}, size : Sizes]

IsMemory(k) == k.kind \in {"mem32", "mem64"}

\* A 64-bit BAR is followed by the register of its upper half.
Layouts ==
  {l \in [Slots -> Kinds] :
     \A i \in Slots : (l[i].kind = "top") = (i > 0 /\ l[i - 1].kind = "mem64")}

NoSave == [decode |-> FALSE, low |-> 0, top |-> 0, mask |-> 0, top_mask |-> 0]

Init ==
  /\ scanner \in {"virtio", "dep_pci"}
  /\ layout \in Layouts
  /\ bar \in {[i \in Slots |-> IF i = j THEN a ELSE 0] :
                 j \in {i \in Slots : IsMemory(layout[i])},
                 a \in {0, Outside} \cup IF Inside THEN {PciBase} ELSE {}}
             \cup {[i \in Slots |-> 0]}
  /\ decode \in BOOLEAN
  /\ current = PciBase
  /\ pc = "alloc" /\ step = "command" /\ idx = 0
  /\ saved = NoSave
  /\ found = [i \in Slots |-> None]
  /\ regions = {}

-----------------------------------------------------------------------------
(* Configuration space.                                                    *)

\* What the hardware keeps of a word written to a BAR.
Kept(i, v) ==
  IF layout[i].kind = "none" THEN 0 ELSE (v \div layout[i].size) * layout[i].size

write_word(i, v) == bar' = [bar EXCEPT ![i] = Kept(i, v)]

\* bar_info gives up on a 64-bit BAR in the last register.
Invalid(i) == layout[i].kind = "mem64" /\ i = Bars - 1

-----------------------------------------------------------------------------
(* PciRoot::bar_info and BAR::decode.                                      *)

\* DisableDecode mutated: the BAR is sized while the device decodes.
KeepsDecoding ==
  /\ step = "command"
  /\ saved' = [NoSave EXCEPT !.decode = decode, !.low = bar[idx]]
  /\ step' = "probe"
  /\ UNCHANGED <<decode, scanner, layout, bar, current, pc, idx, found, regions>>

\* The command is saved and decoding is switched off; dep_pci does neither.
DisableDecode ==
  /\ step = "command"
  /\ saved' = [NoSave EXCEPT !.decode = decode, !.low = bar[idx]]
  /\ decode' = (scanner = "dep_pci" /\ decode)
  /\ step' = "probe"
  /\ UNCHANGED <<scanner, layout, bar, current, pc, idx, found, regions>>

\* All ones are written and read back.  dep_pci looks at the low word alone.
Probe ==
  /\ step = "probe"
  /\ write_word(idx, Word - 1)
  /\ saved' = [saved EXCEPT !.mask = bar'[idx],
                 !.top = IF layout[idx].kind = "mem64" /\ ~Invalid(idx)
                         THEN bar[idx + 1] ELSE 0,
                 !.top_mask = IF bar'[idx] = 0 /\ layout[idx].kind = "none"
                              THEN 0 ELSE Word - 1]
  /\ step' = IF Invalid(idx) /\ scanner = "virtio" THEN "failed"
             ELSE IF layout[idx].kind = "mem64" /\ scanner = "virtio" THEN "top"
             ELSE "restore"
  /\ UNCHANGED <<scanner, layout, decode, current, pc, idx, found, regions>>

ProbeTop ==
  /\ step = "top"
  /\ write_word(idx + 1, Word - 1)
  /\ saved' = [saved EXCEPT !.top_mask = bar'[idx + 1]]
  /\ step' = "restore_top"
  /\ UNCHANGED <<scanner, layout, decode, current, pc, idx, found, regions>>

RestoreTop ==
  /\ step = "restore_top"
  /\ write_word(idx + 1, saved.top)
  /\ step' = "restore"
  /\ UNCHANGED <<scanner, layout, decode, current, pc, idx, saved, found, regions>>

Restore ==
  /\ step = "restore"
  /\ write_word(idx, saved.low)
  /\ step' = "enable"
  /\ UNCHANGED <<scanner, layout, decode, current, pc, idx, saved, found, regions>>

\* What the masks say.  A BAR that reads back zero is not there.
BarInfo ==
  IF saved.mask = 0 /\ saved.top_mask = 0 THEN None
  ELSE [kind |-> layout[idx].kind,
        size |-> (Word * Word - (saved.top_mask * Word + saved.mask)) % (Word * Word),
        address |-> saved.top * Word + saved.low]

\* The command is restored and the information returned.
bar_info ==
  /\ step = "enable"
  /\ decode' = saved.decode
  /\ found' = [found EXCEPT ![idx] = BarInfo]
  /\ step' = "return"
  /\ UNCHANGED <<scanner, layout, bar, current, pc, idx, saved, regions>>

-----------------------------------------------------------------------------
(* enumerate_pci.                                                          *)

align_up(a, n) == ((a + n - 1) \div n) * n

two_entries == found[idx].kind = "mem64"
NextIdx == idx + IF two_entries THEN 2 ELSE 1

\* Begin bar_info for another register, or go to the next phase at the end.
Go(phase, i, after) ==
  /\ idx' = IF i < Bars THEN i ELSE 0
  /\ pc' = IF i < Bars THEN phase ELSE after
  /\ step' = IF i < Bars \/ after = "bars" THEN "command" ELSE "idle"

\* The loop body: an unassigned memory BAR gets the next address of the
\* allocator that is aligned to its size, if one is left, in one or two writes.
alloc_pci_mem ==
  /\ pc = "alloc" /\ step = "return" /\ scanner = "virtio"
  /\ LET b == found[idx]
         ret == align_up(current, b.size)
         fits == ret + b.size <= PciBase + PciSize
     IN IF IsMemory(b) /\ b.address = 0 /\ b.size # 0 /\ fits
        THEN /\ bar' = [i \in Slots |->
                          IF i = idx THEN Kept(idx, ret % Word)
                          ELSE IF two_entries /\ i = idx + 1 THEN ret \div Word
                          ELSE bar[i]]
             /\ current' = ret + b.size
        ELSE UNCHANGED <<bar, current>>
  /\ IF two_entries THEN pc' = "verify" /\ step' = "command" /\ UNCHANGED idx
     ELSE Go("alloc", NextIdx, "command")
  /\ UNCHANGED <<scanner, layout, decode, saved, found, regions>>

\* A 64-bit BAR is sized again after it was programmed.
Verified ==
  /\ pc = "verify" /\ step = "return"
  /\ Go("alloc", NextIdx, "command")
  /\ UNCHANGED <<scanner, layout, bar, decode, current, saved, found, regions>>

\* The whole device is enabled, and every BAR is read once more.
set_command ==
  /\ pc = "command"
  /\ decode' = TRUE
  /\ pc' = "bars" /\ step' = "command" /\ idx' = 0
  /\ UNCHANGED <<scanner, layout, bar, current, saved, found, regions>>

bars ==
  /\ pc = "bars" /\ step = "return"
  /\ Go("bars", NextIdx, "transport")
  /\ UNCHANGED <<scanner, layout, bar, decode, current, saved, found, regions>>

\* The capabilities name a region of some BAR; it is sized again.
capabilities ==
  /\ pc = "transport" /\ Cardinality(regions) < 2
  /\ idx' \in {i \in Slots : layout[i].kind # "top"}
  /\ pc' = "region" /\ step' = "command"
  /\ UNCHANGED <<scanner, layout, bar, decode, current, saved, found, regions>>

\* The checks of get_bar_region: a memory BAR, an address, and room.
get_bar_region ==
  /\ pc = "region" /\ step = "return"
  /\ \E offset \in Sizes \cup {0}, length \in Sizes :
       LET b == found[idx]
           ok == IsMemory(b) /\ b.address # 0 /\ offset + length <= b.size
       IN /\ regions' = IF ok THEN regions \cup {<<b.address + offset, length>>}
                        ELSE regions
          /\ pc' = IF ok THEN "transport" ELSE "failed"
          /\ step' = IF ok THEN "idle" ELSE "failed"
  /\ UNCHANGED <<scanner, layout, bar, decode, current, idx, saved, found>>

-----------------------------------------------------------------------------
(* pci_init: probe_function decodes the BARs, and the disk is enabled.     *)

probe_function ==
  /\ pc = "alloc" /\ step = "return" /\ scanner = "dep_pci"
  /\ Go("alloc", NextIdx, "enable")
  /\ UNCHANGED <<scanner, layout, bar, decode, current, saved, found, regions>>

\* The status test of pci_init never holds; a BAR at 0 is passed over.
enable ==
  /\ pc = "enable" /\ found[0].address # 0
  /\ decode' = TRUE
  /\ pc' = "enabled"
  /\ UNCHANGED <<scanner, layout, bar, current, step, idx, saved, found, regions>>

Next ==
  \/ DisableDecode \/ Probe \/ ProbeTop \/ RestoreTop \/ Restore \/ bar_info
  \/ alloc_pci_mem \/ Verified \/ set_command \/ bars
  \/ capabilities \/ get_bar_region
  \/ probe_function \/ enable

Spec == Init /\ [][Next]_vars

-----------------------------------------------------------------------------
Address(i) ==
  bar[i] + IF layout[i].kind = "mem64" /\ i < Bars - 1 THEN bar[i + 1] * Word ELSE 0
Span(i) == Address(i) .. Address(i) + layout[i].size - 1
Assigned == {i \in Slots : IsMemory(layout[i]) /\ Address(i) # 0}

\* While enumerate_pci's device decodes memory its BARs claim disjoint ranges
\* of the bus, each aligned to its size and none beyond the 32-bit window or
\* the firmware's: sizing never shows on the bus and the allocator never gives
\* an address twice ("Disable address decoding while sizing the BAR").
DecodesOnlyAssigned ==
  decode /\ scanner = "virtio" =>
    /\ \A i, j \in Assigned : i # j => Span(i) \cap Span(j) = {}
    /\ \A i \in Assigned :
         Address(i) = Outside \/ Span(i) \subseteq PciBase .. PciBase + PciSize - 1

\* The information either scanner returns is the hardware's, whatever address
\* the BAR had, and a region of the transport lies within one assigned BAR.
SizesAreExact ==
  /\ step = "return" /\ ~Invalid(idx) =>
       /\ found[idx].kind = layout[idx].kind
       /\ found[idx].size = layout[idx].size
       /\ found[idx].address = Address(idx) \/ ~IsMemory(layout[idx])
  /\ pc = "transport" => \A r \in regions : \E i \in Assigned :
       r[1] .. r[1] + r[2] - 1 \subseteq Span(i)

\* Both: what sizing a BAR leaves, on the bus and in the answers.
BarsAreExact == DecodesOnlyAssigned /\ SizesAreExact
=============================================================================
