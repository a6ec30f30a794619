----------------------------- MODULE Lifecycles -----------------------------
(***************************************************************************)
(* Page pools and task rings set up and destroyed in one process.  They    *)
(* share its memory and nothing else: an address that one of them has      *)
(* given up may be handed to the other at once, so that whatever one frees *)
(* twice, or after it has lost it, is taken from the other.                *)
(***************************************************************************)
EXTENDS Naturals

CONSTANTS PoolCount, PoolSizes, MiB, PageMod, Rings, RingSizes, SizeMod, LongMod,
          Addrs, Null, Faults

VARIABLES
  heap, left,                                     \* of NumaHeap
  cpu_pool, pools, asked, status, poolPc, i,      \* of PoolLifecycle
  ring, life, ringPc, size                        \* of RingLifecycle

memory   == <<heap, left>>
poolVars == <<cpu_pool, pools, asked, status, poolPc, i>>
ringVars == <<ring, life, ringPc, size>>
vars == <<memory, poolVars, ringVars>>

Pool == INSTANCE PoolLifecycle WITH Sizes <- PoolSizes, pc <- poolPc
Ring == INSTANCE RingLifecycle WITH Sizes <- RingSizes, pc <- ringPc

ASSUME LifecyclesAssumption == Pool!ConstantsOK /\ Ring!ConstantsOK

Init == Pool!Init /\ Ring!Init
Next ==
  \/ Pool!Next /\ UNCHANGED ringVars
  \/ Ring!Next /\ UNCHANGED poolVars
Spec == Init /\ [][Next]_vars
-----------------------------------------------------------------------------
\* The types of both.
TypeOK == Pool!TypeOK /\ Ring!TypeOK

\* A pool or ring whose init has returned success has everything it points to,
\* as long as it records, until its own destroy: no failing init and no destroy
\* of anything else takes it away.  What it records is what was asked for unless
\* the bytes of a pool wrap or the size of a ring does not fit 32 bits.
ReadyIsBacked == Pool!ReadyIsBacked /\ Ring!ReadyIsBacked

\* Whichever allocation has failed, kbx_mem_pool_destroy gives back what
\* kbx_mem_pool_init got and kbx_ring_init cleans up by itself.  What stays
\* mapped without an owner is the part that kbx_ring_destroy leaves of the
\* arrays of a ring whose size does not fit 32 bits.
OnlyTooLargeLeaks == Pool!DestroyLeavesNothing /\ Ring!OnlyTooLargeLeaks

\* What is about to be freed is mapped, and no more is freed than is mapped:
\* nothing goes twice, and nothing of anybody else's.
FreesLive == Pool!FreesLive /\ Ring!FreesWithin
=============================================================================
