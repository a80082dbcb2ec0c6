------------------------------ MODULE MCFlmRunner ------------------------------
(* Small instances of FlmRunner: two runs of sectors, pages smaller than the *)
(* smaller sector, images that end inside a page, inside a sector and beyond *)
(* the device.                                                               *)
EXTENDS FlmRunner

Device == << [addr |-> 0, size |-> 2], [addr |-> 4, size |-> 4] >>

Loader(abi, page, table, calls) ==
  [abi |-> abi, page |-> page, sectors |-> table,
   init |-> "init" \in calls, uninit |-> "uninit" \in calls,
   eraseChip |-> "chip" \in calls, eraseSector |-> "sector" \in calls,
   program |-> "program" \in calls, verify |-> "verify" \in calls]

CmsisFull  == Loader("CMSIS", 2, Device, {"init", "uninit", "sector", "program", "verify"})
CmsisPlain == Loader("CMSIS", 1, << >>,  {"sector", "program"})
CmsisChip  == Loader("CMSIS", 2, Device, {"init", "chip", "sector", "program", "verify"})
CmsisNoProgram == Loader("CMSIS", 2, Device, {"init", "uninit", "sector"})
StRange    == Loader("ST", 2, Device, {"init", "sector", "chip", "program"})
StMass     == Loader("ST", 2, << >>, {"init", "chip", "program"})
StNoErase  == Loader("ST", 1, << >>, {"program"})

AllLoaders == {CmsisFull, CmsisPlain, CmsisChip, CmsisNoProgram, StRange, StMass, StNoErase}
=============================================================================
