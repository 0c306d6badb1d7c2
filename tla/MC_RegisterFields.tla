------------------------- MODULE MC_RegisterFields -------------------------
(* The register map of the code, with arguments that set all bits or none. *)
EXTENDS RegisterFields, RegisterMap

MCArgs == {{}, 0 .. 31}
=============================================================================
