---------------------------- MODULE MCSseDecoder ----------------------------
(***************************************************************************)
(* Every short wire of data, identifiers and terminators, and chosen       *)
(* longer ones for marks, comments, events, delays, bad bytes and limits.  *)
(***************************************************************************)
EXTENDS SseDecoder

CONSTANT MaxWire

Short == UNION {[1..n -> {"d", "i", "cr", "lf"}] : n \in 0..MaxWire}

Chosen == {
  <<"bom", "bom", "bom", "d", "d", "lf", "lf">>,             \* the mark and a line at its limit
  <<"bom", "bom", "bom">>,                                   \* nothing but the mark
  <<"bom", "bom", "bom", "lf", "d", "lf", "lf">>,
  <<"bom", "bom", "bom", "d", "d", "d", "lf">>,              \* one byte too many after the mark
  <<"d", "lf", "bom", "bom", "bom", "lf">>,                  \* a mark on a later line
  <<"d", "d", "d", "d", "lf">>,                              \* room for a mark, used for data
  <<"d", "d", "d", "d", "d", "d", "lf">>,                    \* no room to collect it
  <<"d", "lf", "d", "d", "cr", "lf", "d", "lf", "lf">>,      \* one byte too many for the frame
  <<"d", "d", "lf", "c", "o", "lf", "e", "cr", "lf", "cr">>, \* a comment is not counted
  <<"r", "cr", "r", "lf", "e", "lf", "lf", "d", "lf", "lf">>,\* the event of a frame without data
  <<"i", "lf", "d", "lf", "lf", "d", "lf", "lf", "r">>,      \* an identifier stays in force
  <<"i", "lf", "c", "lf", "lf", "d", "lf", "i">>,            \* an identifier behind data, cut
  <<"o", "lf", "i", "lf", "i", "lf", "lf", "d", "cr", "cr">>,
  <<"d", "cr", "lf", "cr", "lf", "i", "cr", "bad", "cr">>,
  <<"c", "c", "c", "lf">>}

MCWires == Short \union Chosen
=============================================================================
