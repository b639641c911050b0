------------------------- MODULE MCDescriptorBytes -------------------------
(***************************************************************************)
(* Descriptors that differ in one field from one with no optional field,   *)
(* and some with all of them.  A label at its cap needs a longer length    *)
(* prefix than one below.                                                  *)
(***************************************************************************)
EXTENDS DescriptorBytes

Text(n) == [i \in 1..n |-> Radix - i]

Small == {None, <<>>, Text(1)}

Variants ==
  [encrypted |-> {FALSE, TRUE}, version |-> {0, 1, 2},
   vdxf_key |-> {None, [i \in 1..KeyBytes |-> 0], Text(KeyBytes)},
   object_data |-> {<<>>, <<0>>, Text(5)},
   label |-> {None, <<>>, Text(LabelCap), Text(LabelCap + 1)},
   mime_type |-> {None, <<>>, Text(MimeCap), Text(MimeCap + 1)},
   salt |-> Small, epk |-> Small, ivk |-> Small, ssk |-> Small]

Bare ==
  [encrypted |-> FALSE, version |-> 1, vdxf_key |-> None, object_data |-> <<0>>,
   label |-> None, mime_type |-> None,
   salt |-> None, epk |-> None, ivk |-> None, ssk |-> None]

Full ==
  [encrypted |-> TRUE, version |-> 1, vdxf_key |-> Text(KeyBytes),
   object_data |-> Text(2), label |-> Text(1), mime_type |-> Text(2),
   salt |-> Text(1), epk |-> Text(2), ivk |-> Text(1), ssk |-> Text(3)]

Near(dd) ==
  UNION {{[dd EXCEPT ![f] = v] : v \in Variants[f]} : f \in DOMAIN dd}

MCDescriptors ==
  Near(Bare) \cup {Full} \cup
  {[Full EXCEPT !.label = l, !.mime_type = m] :
     l \in {None, Text(LabelCap + 1)}, m \in {<<>>, Text(MimeCap + 1)}}
=============================================================================
