---------------------------- MODULE MCJsonParser ----------------------------
(* Instances of JsonParser for TLC: numbers around every boundary of the   *)
(* scaled widths, and one value of every other kind.                       *)
EXTENDS JsonParser, TLC

Numbers == {Number(twice) :
  twice \in {-18, -17, -16, -6, -4, -1, 0, 1, 2, 6, 8, 14, 16, 18, 62, 63, 64, 66}}

Others == {Null, Boolean, Object(TRUE), Object(FALSE),
           Text(Malformed), Text(Null), Text(Number(2)), Text(Number(9)),
           ArrayOf(<<Number(-4), Text(Number(2))>>), ArrayOf(<<Number(2), Null>>),
           ArrayOf(<<Number(4), Number(2)>>)}

MCValues ==
  Numbers \cup Others \cup {Number(-4), Number(2), Number(4), Number(9), Text(Number(2))}

\* The fields are looked up in any order, so their order does not matter.
Pairs == {<<Null, Number(2)>>, <<Number(2), Number(2)>>, <<Text(Number(9)), Number(2)>>,
          <<Null, Text(Number(9))>>}

MCDocuments ==
  {Malformed}
  \cup {Document([k \in {"a"} |-> v]) : v \in Numbers \cup Others}
  \cup {Document([a |-> p[1], b |-> p[2]]) : p \in Pairs}

(* One lookup covers every conversion; two fields, their interplay.        *)
MCMaxFields(d) ==
  IF d = Malformed THEN 1 ELSE Cardinality(DOMAIN d.fields)
=============================================================================
