----------------------------- MODULE EventUnit -----------------------------
(***************************************************************************)
(* The main core's side of a tile's Event Unit: the event buffer and the   *)
(* event mask, with the register accesses that sw/utils/event_unit_utils.h *)
(* makes to them.  The unit itself (event_unit_top) is not part of the     *)
(* repository; it is modelled from how the code in src/ uses it.           *)
(*                                                                         *)
(* Every operator takes `new', the events that arrive in the same cycle.   *)
(***************************************************************************)
EXTENDS Naturals

CONSTANT Events   \* the event lines of the main core that the tile uses

VARIABLES
  eu_buffer,   \* EU_CORE_BUFFER: latched events
  eu_mask      \* EU_CORE_MASK: events that a wait or a masked read sees

euVars == <<eu_buffer, eu_mask>>

EuTypeOK == eu_buffer \subseteq Events /\ eu_mask \subseteq Events

\* Nothing is latched; the mask is whatever earlier code left behind.
EuInit == eu_buffer = {} /\ eu_mask \in SUBSET Events

\* The unit's code is not at hand, so an event that arrives in the very cycle
\* in which its bit is cleared may be kept or lost.
EuLatch(new, cleared) ==
  eu_buffer' \in {(eu_buffer \cup new) \ cleared, (eu_buffer \ cleared) \cup new}

EuMasked == eu_buffer \cap eu_mask

\* No access by the main core.
EuIdle(new) == EuLatch(new, {}) /\ UNCHANGED eu_mask

\* mmio32(EU_CORE_MASK) = 0
EuDisableAll(new) == EuLatch(new, {}) /\ eu_mask' = {}

eu_enable_events(evts, new)  == EuLatch(new, {}) /\ eu_mask' = eu_mask \cup evts
eu_disable_events(evts, new) == EuLatch(new, {}) /\ eu_mask' = eu_mask \ evts
eu_clear_events(evts, new)   == EuLatch(new, evts) /\ UNCHANGED eu_mask

\* EVENT_WAIT blocks until some enabled event is there and leaves it latched;
\* EVENT_WAIT_CLEAR clears every enabled event it found, not only the one the
\* caller is after.
eu_evt_wait(new) ==
  EuMasked # {} /\ EuIdle(new)
eu_evt_waitAndClr(new) ==
  EuMasked # {} /\ EuLatch(new, EuMasked) /\ UNCHANGED eu_mask

\* eu_check_events(evts) reads as non-zero.
EuSees(evts) == EuMasked \cap evts # {}
=============================================================================
