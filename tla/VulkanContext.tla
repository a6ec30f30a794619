---------------------------- MODULE VulkanContext ----------------------------
(***************************************************************************)
(* The Vulkan context (src/src/gfx/drm_vk_renderer.cc): kbx_vulkan_init    *)
(* creates an instance, a device, a command pool and a command buffer, one *)
(* inside the other, and undoes what it has done when a step fails;        *)
(* kbx_vulkan_deinit destroys them.                                        *)
(*                                                                         *)
(* Vulkan itself is external: an object may be destroyed only while it     *)
(* exists and nothing that was created from it does.  No error path and no *)
(* deinit resets a handle in the context, so the client of this model      *)
(* calls deinit once after a successful init, and not after a failed one;  *)
(* it may call init again after either.  Left out: the layers, extensions  *)
(* and names, and which physical device is taken.                          *)
(***************************************************************************)
EXTENDS Sequences

CONSTANT DeinitAlways   \* does the client also call deinit after a failed init?

VARIABLES
  exists,       \* Vulkan: the objects that exist
  handle,       \* the fields of the context that are not VK_NULL_HANDLE
  life,         \* "none", "ready", "failed" or "gone": what the last call left
  step,         \* the next step of the call in progress
  doomed        \* the objects it has still to destroy, in this order

vars == <<exists, handle, life, step, doomed>>

Objs == {"instance", "device", "pool", "buffer"}

\* What an object is created from.
Parent == [device |-> "instance", pool |-> "device", buffer |-> "pool"]
Children(o) == {c \in DOMAIN Parent : Parent[c] = o}

Init ==
  /\ exists = {} /\ handle = {}
  /\ life = "none" /\ step = "idle" /\ doomed = <<>>

\* The creating calls of init and what follows each; "choose" is the search
\* for a physical device and for a graphics queue family of it.
After == [instance |-> "choose", choose |-> "device", device |-> "pool",
          pool |-> "buffer", buffer |-> "done"]

\* What is destroyed when a step fails.
UndoLeavesDevice ==             \* fault: vkDestroyDevice is forgotten
  [instance |-> <<>>, choose |-> <<"instance">>, device |-> <<"instance">>,
   pool |-> <<"instance">>, buffer |-> <<"pool", "device", "instance">>]
Undo ==
  [instance |-> <<>>, choose |-> <<"instance">>, device |-> <<"instance">>,
   pool |-> <<"device", "instance">>, buffer |-> <<"pool", "device", "instance">>]

InitCall ==
  /\ step = "idle"
  /\ life # "ready"
  /\ step' = "instance"
  /\ UNCHANGED <<exists, handle, life, doomed>>

Create ==
  /\ step \in DOMAIN After
  /\ exists' = exists \cup ({step} \cap Objs)
  /\ handle' = handle \cup ({step} \cap Objs)
  /\ IF After[step] = "done"
       THEN step' = "idle" /\ life' = "ready"
       ELSE step' = After[step] /\ UNCHANGED life
  /\ UNCHANGED doomed

Fails ==
  /\ step \in DOMAIN After
  /\ doomed' = Undo[step]
  /\ step' = "destroy"
  /\ life' = "failed"
  /\ UNCHANGED <<exists, handle>>

DeinitOutsideIn == <<"instance", "device", "pool", "buffer">>   \* fault: reversed
DeinitOrder == <<"buffer", "pool", "device", "instance">>

Deinit ==
  /\ step = "idle"
  /\ life = "ready" \/ (DeinitAlways /\ life = "failed")
  /\ doomed' = DeinitOrder
  /\ step' = "destroy"
  /\ life' = "gone"
  /\ UNCHANGED <<exists, handle>>

\* deinit passes over handles that are not set, and over the buffer if there is
\* no pool to free it to.
PassedOver(o) ==
  /\ life = "gone"
  /\ o \notin handle \/ (o = "buffer" /\ "pool" \notin handle)

Destroy ==
  /\ step = "destroy"
  /\ doomed # <<>>
  /\ exists' = IF PassedOver(Head(doomed)) THEN exists ELSE exists \ {Head(doomed)}
  /\ doomed' = Tail(doomed)
  /\ UNCHANGED <<handle, life, step>>

Return ==
  /\ step = "destroy"
  /\ doomed = <<>>
  /\ step' = "idle"
  /\ UNCHANGED <<exists, handle, life, doomed>>

Next == InitCall \/ Create \/ Fails \/ Deinit \/ Destroy \/ Return
Spec == Init /\ [][Next]_vars
-----------------------------------------------------------------------------
(***************************************************************************)
(* Properties.                                                             *)
(***************************************************************************)
TypeOK ==
  /\ exists \subseteq Objs
  /\ handle \subseteq Objs
  /\ life \in {"none", "ready", "failed", "gone"}
  /\ step \in DOMAIN After \cup {"idle", "destroy"}
  /\ doomed \in Seq(Objs)

\* What is about to be destroyed exists and nothing created from it does:
\* every object is destroyed once, and inside out, on every path.
DestroysInsideOut ==
  doomed # <<>> /\ ~ PassedOver(Head(doomed)) =>
    /\ Head(doomed) \in exists
    /\ Children(Head(doomed)) \cap exists = {}

\* Between calls there are four objects, all in the context, if the last init
\* succeeded, and none if it failed or was undone by deinit.
AllOrNothing ==
  step = "idle" =>
    IF life = "ready" THEN exists = Objs /\ handle = Objs ELSE exists = {}
=============================================================================
