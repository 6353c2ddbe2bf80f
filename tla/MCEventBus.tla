------------------------------ MODULE MCEventBus ------------------------------
(* Small instances of the event bus for TLC. *)
EXTENDS EventBus

CONSTANTS gauge, state    \* a replaceable key and one that is not

MCFilters == {{gauge, state}, {gauge}}
MCAllEvents == {{gauge, state}}
=============================================================================
