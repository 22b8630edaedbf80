------------------------------ MODULE MCPlatform ------------------------------
(* A small platform for Platform: three devices of the boards the code runs *)
(* on and one more, with 32 and 64 bit BARs; images whose sections end at,  *)
(* before and after the end of a page.                                      *)
EXTENDS Platform

MCUart   == <<0, 24, 2>>
MCSpi    == <<0, 25, 0>>
MCModule == <<0, 2, 0>>
MCDevices == {HECI, MCUart, MCSpi, MCModule}

(* BAR 0 of the module's device is of the width asked for, and above 4 GB   *)
(* if it has 64 bits; with 32 bits another BAR follows.                     *)
MCBars(low) == [f \in MCDevices |->
  CASE f = HECI   -> <<4, 0, 18, 145, 0, 0, 0, 0>>
    [] f = MCUart -> <<0, 16, 18, 145, 0, 0, 2, 144>>
    [] f = MCSpi  -> <<4, 32, 18, 145, 0, 0, 0, 0>>
    [] OTHER      -> <<low, 0, 0, 144, 1, 0, 0, 0>>]
MCMovedBar == <<4, 48, 18, 145>>

Shared  == [text |-> 6, rela |-> 1, rodata |-> 4, data |-> 1, ctors |-> 1, bss |-> 6]
Aligned == [text |-> 4, rela |-> 0, rodata |-> 7, data |-> 9, ctors |-> 4, bss |-> 8]
Uneven  == [text |-> 5, rela |-> 9, rodata |-> 1, data |-> 4, ctors |-> 0, bss |-> 3]

Cpu(model) == [edx |-> {0, 3, 11}, family |-> 6, model |-> model, stepping |-> 1]
Board(layout, up, vmm, model, low, cmd, hfs1) ==
  [layout |-> layout, roundUp |-> up, vmm |-> vmm, cpuid |-> Cpu(model),
   bars |-> MCBars(low), cmd |-> cmd, hfs1 |-> <<hfs1, 0, 0, 0>>]

(* The fifth runs under a hypervisor LK does not know, the sixth has no     *)
(* sysenter; the fourth is in manufacturing mode.                           *)
MCMachines ==
  {Board(Shared, TRUE, "EVMMEVMMEVMM", 12, 4, 6, 5),
   Board(Aligned, FALSE, "ACRNACRNACRN", 12, 0, 0, 5),
   Board(Uneven, TRUE, "ACRNACRNACRN", 12, 4, 6, 5),
   Board(Shared, FALSE, "EVMMEVMMEVMM", 12, 0, 0, 21),
   Board(Uneven, FALSE, "KVMKVMKVM", 12, 4, 6, 5),
   Board(Aligned, TRUE, "EVMMEVMMEVMM", 1, 4, 6, 5)}

MCStartAddrs == {32768, 1048576}
=============================================================================
