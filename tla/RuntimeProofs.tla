---------------------------- MODULE RuntimeProofs ----------------------------
(***************************************************************************)
(* Proofs about the program of Runtime: the OpenCL engine, the Vulkan      *)
(* context and the shared blocks side by side, for all values of their     *)
(* constants.                                                              *)
(*                                                                         *)
(* To each of the three a step of the program is one of its own or none,   *)
(* so that each behaves in the program as it does alone (EngineBehaves,    *)
(* VulkanBehaves, SharedBehaves).  The engine's theorems are those of      *)
(* ClEngineProofs.  Those about the shared allocator come from             *)
(* SharedAllocProofs: they speak of an instance of their own, SharedProofs,*)
(* whose definitions are those of Shared.  What is needed of the Vulkan    *)
(* context is proved here.                                                 *)
(***************************************************************************)
EXTENDS Runtime, ClEngineProofs

SharedProofs == INSTANCE SharedAllocProofs

-----------------------------------------------------------------------------
(***************************************************************************)
(* The parts of the program.                                               *)
(***************************************************************************)
LEMMA EngineBehaves == RuntimeSpec => Spec
<1>1. [RuntimeNext]_<<vars, vulkanVars, sharedVars>> => [Next]_vars
  BY DEF RuntimeNext
<1> QED BY <1>1, PTL DEF RuntimeSpec, RuntimeInit, Spec

LEMMA VulkanBehaves == RuntimeSpec => Vulkan!Spec
<1>1. [RuntimeNext]_<<vars, vulkanVars, sharedVars>> => [Vulkan!Next]_(Vulkan!vars)
  BY DEF RuntimeNext, Vulkan!vars, vulkanVars
<1> QED BY <1>1, PTL DEF RuntimeSpec, RuntimeInit, Vulkan!Spec

LEMMA SharedBehaves == RuntimeSpec => SharedProofs!Spec
<1>1. RuntimeInit => SharedProofs!Init
  BY DEF RuntimeInit, Shared!Init, SharedProofs!Init, Shared!Space, SharedProofs!Space
<1>2. ASSUME Shared!Next PROVE SharedProofs!Next
  BY <1>2 DEF Shared!Next, SharedProofs!Next,
         Shared!SharedAlloc, SharedProofs!SharedAlloc, Shared!SharedFree,
         SharedProofs!SharedFree, Shared!Total, SharedProofs!Total,
         Shared!Unmapped, SharedProofs!Unmapped, Shared!Run, SharedProofs!Run,
         Shared!PagesOf, SharedProofs!PagesOf, Shared!Space,
         SharedProofs!Space, Shared!AllSizes, SharedProofs!AllSizes
<1>3. [RuntimeNext]_<<vars, vulkanVars, sharedVars>> => [SharedProofs!Next]_(SharedProofs!vars)
  BY <1>2 DEF RuntimeNext, SharedProofs!vars, vulkanVars, sharedVars
<1> QED BY <1>1, <1>3, PTL DEF RuntimeSpec, SharedProofs!Spec
-----------------------------------------------------------------------------
(***************************************************************************)
(* The Vulkan context, for a client that calls deinit only after a         *)
(* successful init.  The objects form a chain, each created from the one   *)
(* before, so what exists at any time is the beginning of it.  Built says  *)
(* how far it reaches: at each creating step to the one before, and while  *)
(* objects are destroyed to the first of those that are left to destroy.   *)
(***************************************************************************)
\* The chains of 0 to 4 objects, and the lists that take them apart.
Chains == {{}, {"instance"}, {"instance", "device"},
           {"instance", "device", "pool"}, Vulkan!Objs}
TakesApart(list, chain) ==
  \/ list = <<>> /\ chain = {}
  \/ list = <<"instance">> /\ chain = {"instance"}
  \/ list = <<"device", "instance">> /\ chain = {"instance", "device"}
  \/ list = <<"pool", "device", "instance">> /\ chain = {"instance", "device", "pool"}
  \/ list = <<"buffer", "pool", "device", "instance">> /\ chain = Vulkan!Objs

Built ==
  /\ exists \in Chains /\ exists \subseteq handle /\ handle \subseteq Vulkan!Objs
  /\ life \in {"none", "ready", "failed", "gone"}
  /\ step \in DOMAIN Vulkan!After \cup {"idle", "destroy"}
  /\ doomed = <<>> \/ step = "destroy"
  /\ step = "idle" => exists = IF life = "ready" THEN Vulkan!Objs ELSE {}
  /\ life \in {"ready", "gone"} => handle = Vulkan!Objs
  /\ life = "ready" => step = "idle"
  /\ step = "destroy" => TakesApart(doomed, exists)
  /\ step = "instance" => exists = {}
  /\ step = "choose" => exists = {"instance"}
  /\ step = "device" => exists = {"instance"}
  /\ step = "pool" => exists = {"instance", "device"}
  /\ step = "buffer" => exists = {"instance", "device", "pool"}

LEMMA VulkanSteps == DOMAIN Vulkan!After = {"instance", "choose", "device", "pool", "buffer"}
BY DEF Vulkan!After

LEMMA AfterValues ==
  /\ Vulkan!After["instance"] = "choose" /\ Vulkan!After["choose"] = "device"
  /\ Vulkan!After["device"] = "pool" /\ Vulkan!After["pool"] = "buffer"
  /\ Vulkan!After["buffer"] = "done"
BY DEF Vulkan!After

\* Each failing step takes apart what there is.
LEMMA UndoTakesApart ==
  ASSUME Built, step \in DOMAIN Vulkan!After
  PROVE  TakesApart(Vulkan!Undo[step], exists)
BY VulkanSteps DEF Built, TakesApart, Vulkan!Undo

\* What is first on a list that takes apart what exists may be destroyed, and
\* the rest of the list takes apart the rest.
LEMMA HeadIsInnermost ==
  ASSUME TakesApart(doomed, exists), doomed # <<>>
  PROVE  /\ Head(doomed) \in exists
         /\ Vulkan!Children(Head(doomed)) \cap exists = {}
         /\ TakesApart(Tail(doomed), exists \ {Head(doomed)})
         /\ exists \ {Head(doomed)} \in Chains
<1>1. /\ Vulkan!Children("instance") = {"device"} /\ Vulkan!Children("device") = {"pool"}
      /\ Vulkan!Children("pool") = {"buffer"} /\ Vulkan!Children("buffer") = {}
  BY DEF Vulkan!Children, Vulkan!Parent
<1>2. CASE doomed = <<"instance">> /\ exists = {"instance"}
  <2>1. Head(doomed) = "instance" /\ Tail(doomed) = <<>>
    BY <1>2
  <2> QED BY <1>1, <1>2, <2>1 DEF TakesApart, Chains
<1>3. CASE doomed = <<"device", "instance">> /\ exists = {"instance", "device"}
  <2>1. Head(doomed) = "device" /\ Tail(doomed) = <<"instance">>
    BY <1>3
  <2> QED BY <1>1, <1>3, <2>1 DEF TakesApart, Chains
<1>4. CASE /\ doomed = <<"pool", "device", "instance">>
           /\ exists = {"instance", "device", "pool"}
  <2>1. Head(doomed) = "pool" /\ Tail(doomed) = <<"device", "instance">>
    BY <1>4
  <2> QED BY <1>1, <1>4, <2>1 DEF TakesApart, Chains
<1>5. CASE doomed = <<"buffer", "pool", "device", "instance">> /\ exists = Vulkan!Objs
  <2>1. Head(doomed) = "buffer" /\ Tail(doomed) = <<"pool", "device", "instance">>
    BY <1>5
  <2>2. Vulkan!Objs \ {"buffer"} = {"instance", "device", "pool"}
    BY DEF Vulkan!Objs
  <2> QED BY <1>1, <1>5, <2>1, <2>2 DEF TakesApart, Chains, Vulkan!Objs
<1> QED BY <1>2, <1>3, <1>4, <1>5 DEF TakesApart

LEMMA BuiltInitially == Vulkan!Init => Built
BY DEF Vulkan!Init, Built, Chains

LEMMA BuiltSteps == ~DeinitAlways /\ Built /\ [Vulkan!Next]_(Vulkan!vars) => Built'
<1> SUFFICES ASSUME ~DeinitAlways, Built, [Vulkan!Next]_(Vulkan!vars) PROVE Built'
  OBVIOUS
<1>1. CASE Vulkan!InitCall
  BY <1>1, VulkanSteps DEF Vulkan!InitCall, Built
<1>2. CASE Vulkan!Create
  <2>1. handle' \subseteq Vulkan!Objs
    BY <1>2 DEF Vulkan!Create, Built
  <2>2. CASE step = "instance"
    BY <1>2, <2>1, <2>2, VulkanSteps, AfterValues DEF Vulkan!Create, Built, Chains, Vulkan!Objs
  <2>3. CASE step = "choose"
    BY <1>2, <2>1, <2>3, VulkanSteps, AfterValues DEF Vulkan!Create, Built, Chains, Vulkan!Objs
  <2>4. CASE step = "device"
    BY <1>2, <2>1, <2>4, VulkanSteps, AfterValues DEF Vulkan!Create, Built, Chains, Vulkan!Objs
  <2>5. CASE step = "pool"
    BY <1>2, <2>1, <2>5, VulkanSteps, AfterValues DEF Vulkan!Create, Built, Chains, Vulkan!Objs
  <2>6. CASE step = "buffer"
    BY <1>2, <2>1, <2>6, VulkanSteps, AfterValues DEF Vulkan!Create, Built, Chains, Vulkan!Objs
  <2> QED BY <1>2, <2>2, <2>3, <2>4, <2>5, <2>6, VulkanSteps DEF Vulkan!Create
<1>3. CASE Vulkan!Fails
  BY <1>3, VulkanSteps, UndoTakesApart DEF Vulkan!Fails, Built
<1>4. CASE Vulkan!Deinit
  BY <1>4, VulkanSteps DEF Vulkan!Deinit, Built, Vulkan!DeinitOrder, TakesApart
<1>5. CASE Vulkan!Destroy
  <2>1. step = "destroy" /\ TakesApart(doomed, exists) /\ life # "ready" /\ doomed # <<>>
    BY <1>5 DEF Vulkan!Destroy, Built
  <2>2. TakesApart(doomed', exists \ {Head(doomed)}) /\ exists \ {Head(doomed)} \in Chains
    BY <1>5, <2>1, HeadIsInnermost DEF Vulkan!Destroy
  <2>3. Head(doomed) \in Vulkan!Objs
    BY <2>1, HeadIsInnermost DEF Built, Chains, Vulkan!Objs
  <2>4. exists' = exists \ {Head(doomed)}
    BY <1>5, <2>3 DEF Vulkan!Destroy, Vulkan!PassedOver, Built, Vulkan!Objs
  <2> QED BY <1>5, <2>1, <2>2, <2>4, VulkanSteps DEF Vulkan!Destroy, Built
<1>6. CASE Vulkan!Return
  BY <1>6, VulkanSteps DEF Vulkan!Return, Built, TakesApart
<1>7. CASE UNCHANGED Vulkan!vars
  BY <1>7 DEF Vulkan!vars, Built
<1> QED BY <1>1, <1>2, <1>3, <1>4, <1>5, <1>6, <1>7 DEF Vulkan!Next
LEMMA VulkanIsBuilt == ASSUME ~DeinitAlways PROVE Vulkan!Spec => []Built
BY BuiltInitially, BuiltSteps, PTL DEF Vulkan!Spec

\* Whoever calls deinit, and when: a list of objects to destroy stays one.
LEMMA VulkanTypeCorrect == Vulkan!Spec => []Vulkan!TypeOK
<1> DEFINE T == Vulkan!TypeOK
<1>0. /\ <<>> \in Seq(Vulkan!Objs)
      /\ \A s \in Seq(Vulkan!Objs) : s # <<>> => Tail(s) \in Seq(Vulkan!Objs)
  OBVIOUS
<1>1. Vulkan!Init => T
  BY <1>0 DEF Vulkan!Init, Vulkan!TypeOK
<1>2. ASSUME T, [Vulkan!Next]_(Vulkan!vars) PROVE T'
  <2>1. CASE Vulkan!InitCall
    BY <1>2, <2>1, VulkanSteps DEF Vulkan!InitCall, Vulkan!TypeOK
  <2>2. CASE Vulkan!Create
    BY <1>2, <2>2, VulkanSteps, AfterValues DEF Vulkan!Create, Vulkan!TypeOK
  <2>3. CASE Vulkan!Fails
    <3>1. Vulkan!Undo[step] \in
            {<<>>, <<"instance">>, <<"device", "instance">>,
             <<"pool", "device", "instance">>}
      BY <2>3, VulkanSteps DEF Vulkan!Fails, Vulkan!Undo
    <3>2. /\ <<"instance">> \in Seq(Vulkan!Objs) /\ <<"device", "instance">> \in Seq(Vulkan!Objs)
          /\ <<"pool", "device", "instance">> \in Seq(Vulkan!Objs)
      BY DEF Vulkan!Objs
    <3> QED BY <1>0, <3>2, <1>2, <2>3, <3>1 DEF Vulkan!Fails, Vulkan!TypeOK
  <2>4. CASE Vulkan!Deinit
    <3>1. Vulkan!DeinitOrder \in Seq(Vulkan!Objs)
      BY DEF Vulkan!DeinitOrder, Vulkan!Objs
    <3> QED BY <1>2, <2>4, <3>1 DEF Vulkan!Deinit, Vulkan!TypeOK
  <2>5. CASE Vulkan!Destroy
    BY <1>0, <1>2, <2>5 DEF Vulkan!Destroy, Vulkan!TypeOK
  <2>6. CASE Vulkan!Return
    BY <1>2, <2>6 DEF Vulkan!Return, Vulkan!TypeOK
  <2>7. CASE UNCHANGED Vulkan!vars
    BY <1>2, <2>7 DEF Vulkan!vars, Vulkan!TypeOK
  <2> QED BY <1>2, <2>1, <2>2, <2>3, <2>4, <2>5, <2>6, <2>7 DEF Vulkan!Next
<1> QED BY <1>1, <1>2, PTL DEF Vulkan!Spec

-----------------------------------------------------------------------------
\* The types of all three parts, in a program that zeroes its kbx_cl_ctx.
THEOREM RuntimeTypeCorrect ==
  ASSUME Zeroed
  PROVE  RuntimeSpec => []RuntimeTypeOK
<1>1. RuntimeSpec => []TypeOK
  BY EngineBehaves, TypeCorrect, PTL
<1>2. RuntimeSpec => []Vulkan!TypeOK
  BY VulkanBehaves, VulkanTypeCorrect, PTL
<1>3. SharedProofs!Spec => []SharedProofs!TypeOK
  BY RuntimeAssumption, SharedProofs!SharedTypeCorrect
     DEF Shared!SharedAssumption, SharedProofs!SharedAssumption
<1>4. SharedProofs!TypeOK => Shared!TypeOK
  BY DEF Shared!TypeOK, SharedProofs!TypeOK, Shared!Space, SharedProofs!Space,
         Shared!AllSizes, SharedProofs!AllSizes
<1> QED BY <1>1, <1>2, <1>3, <1>4, SharedBehaves, PTL DEF RuntimeTypeOK

\* Whatever is called in between, whichever step of kbx_vulkan_init fails, and in
\* kbx_vulkan_deinit: what is destroyed exists, and nothing created from it does.
THEOREM ContextDestroysInsideOut ==
  ASSUME ~DeinitAlways
  PROVE  RuntimeSpec => []DestroysInsideOut
<1>1. Built => DestroysInsideOut
  BY HeadIsInnermost DEF Built, DestroysInsideOut, Vulkan!DestroysInsideOut
<1> QED BY <1>1, VulkanBehaves, VulkanIsBuilt, PTL

\* Between calls the Vulkan context is complete, or there is nothing of it.
THEOREM ContextIsAllOrNothing ==
  ASSUME ~DeinitAlways
  PROVE  RuntimeSpec => []AllOrNothing
<1>1. Built => AllOrNothing
  BY DEF Built, AllOrNothing, Vulkan!AllOrNothing
<1> QED BY <1>1, VulkanBehaves, VulkanIsBuilt, PTL

\* A shared block is mapped from its first byte to its last exactly if
\* size + KBX_PAGE_SIZE does not wrap.
THEOREM BlocksAreBackedUnlessWrapped == RuntimeSpec => []BackedUnlessWrapped
<1>1. SharedProofs!Spec => []SharedProofs!BackedUnlessWrapped
  BY RuntimeAssumption, SharedProofs!BackedExactlyUnlessWrapped
     DEF Shared!SharedAssumption, SharedProofs!SharedAssumption
<1>2. SharedProofs!BackedUnlessWrapped => BackedUnlessWrapped
  BY DEF BackedUnlessWrapped,
         Shared!BackedUnlessWrapped, SharedProofs!BackedUnlessWrapped,
         Shared!BlockPages, SharedProofs!BlockPages, Shared!Run,
         SharedProofs!Run, Shared!PagesOf, SharedProofs!PagesOf, Shared!Space,
         SharedProofs!Space
<1> QED BY <1>1, <1>2, SharedBehaves, PTL

\* Every mapped page belongs to the mapping of one live block: given the length
\* alloc wrote there, kbx_mem_shared_free leaves no page of its mapping behind
\* and takes none of another's.
THEOREM MappedPagesAreOwned == RuntimeSpec => []MappedIsOwned
<1>1. SharedProofs!Spec => []SharedProofs!MappedIsOwned
  BY RuntimeAssumption, SharedProofs!MappedPagesAreOwned
     DEF Shared!SharedAssumption, SharedProofs!SharedAssumption
<1>2. SharedProofs!MappedIsOwned => MappedIsOwned
  BY DEF MappedIsOwned,
         Shared!MappedIsOwned, SharedProofs!MappedIsOwned, Shared!Run,
         SharedProofs!Run, Shared!PagesOf, SharedProofs!PagesOf, Shared!Space,
         SharedProofs!Space
<1> QED BY <1>1, <1>2, SharedBehaves, PTL
=============================================================================
