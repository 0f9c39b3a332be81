---------------------------- MODULE MC_EventRange ----------------------------
(* Model-checking instance of EventRange: a 6-bit event space, a 5-bit      *)
(* unsigned, handlers of one to eight bits at every base.                   *)
EXTENDS EventRange
=============================================================================
