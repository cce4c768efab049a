------------------------- MODULE MCSectionExplainer -------------------------
EXTENDS SectionExplainer
CONSTANTS a, b

(* One section, or two of which the first is shared between the pages. *)
OnePage == {<<a>>}
TwoPages == {<<a>>, <<a, b>>}
=============================================================================
