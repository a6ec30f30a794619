------------------------------- MODULE Runtime -------------------------------
(***************************************************************************)
(* A program in the manner of src/main.cc: one thread that drives the      *)
(* OpenCL engine, the Vulkan context and shared blocks, one call at a time *)
(* and in any order, whatever the calls before have returned.              *)
(***************************************************************************)
EXTENDS ClEngine

CONSTANTS DeinitAlways, PageSize, SizeMod, SpacePages

VARIABLES
  exists, handle, life, step, doomed,       \* of VulkanContext
  mapping, length, blocks                   \* of SharedAlloc

vulkanVars == <<exists, handle, life, step, doomed>>
sharedVars == <<mapping, length, blocks>>

Vulkan == INSTANCE VulkanContext
Shared == INSTANCE SharedAlloc

ASSUME RuntimeAssumption == Shared!SharedAssumption

RuntimeInit == Init /\ Vulkan!Init /\ Shared!Init

RuntimeNext ==
  \/ step = "idle" /\ Next /\ UNCHANGED <<vulkanVars, sharedVars>>
  \/ pc = "idle" /\ Vulkan!Next /\ UNCHANGED <<vars, sharedVars>>
  \/ pc = "idle" /\ step = "idle" /\ Shared!Next /\ UNCHANGED <<vars, vulkanVars>>

RuntimeSpec == RuntimeInit /\ [][RuntimeNext]_<<vars, vulkanVars, sharedVars>>
-----------------------------------------------------------------------------
(***************************************************************************)
(* Properties.                                                             *)
(***************************************************************************)

\* The types of all three parts.
RuntimeTypeOK == TypeOK /\ Vulkan!TypeOK /\ Shared!TypeOK

\* What the Vulkan context and the shared blocks promise, whatever is called in
\* between.
DestroysInsideOut   == Vulkan!DestroysInsideOut
AllOrNothing        == Vulkan!AllOrNothing
BackedUnlessWrapped == Shared!BackedUnlessWrapped
MappedIsOwned       == Shared!MappedIsOwned
=============================================================================
