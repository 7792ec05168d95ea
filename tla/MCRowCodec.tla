------------------------------ MODULE MCRowCodec ------------------------------
(* Small instances of RowCodec: every list of at most two columns, a column *)
(* between two others, and nine columns, whose nulls take two bytes.        *)
EXTENDS RowCodec

Types == {"byte", "long", "string", "strings", "longs"}

MCSchemas ==
  {<<t>> : t \in Types} \cup {<<t, u>> : t, u \in Types}
    \cup {<<"string", "long", "longs">>,
          <<"byte", "byte", "byte", "byte", "string", "byte", "byte", "byte", "long">>}

(* On both sides of each threshold, and at it. *)
MCStringLists == {<<>>, <<0>>, <<1, 2>>, <<4>>}
=============================================================================
