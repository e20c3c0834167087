------------------------------ MODULE MCRunLog ------------------------------
(* Instance of RunLog: two combos.                                          *)
EXTENDS RunLog
MCMatrix == <<"vdn", "qmix">>
=============================================================================
