------------------------------ MODULE MCVtcTests ------------------------------
(* a.vtc in two directories beside a-1.vtc, which collides with the second;  *)
(* 1.vtc and _1.vtc share a base; t6 is not UTF-8; t7 and t8 are the files    *)
(* of run_all_tests.                                                         *)
EXTENDS VtcTests, TLC

CONSTANTS t1, t2, t3, t4, t5, t6, t7, t8

Pattern  == <<t7, t8>>
Paths    == <<t1, t2, t3, t4, t5, t6>>
Called   == t1 :> <<"a">> @@ t2 :> <<"a", "-", "1">> @@ t3 :> <<"a">>
            @@ t4 :> <<"1">> @@ t5 :> <<"_", "1">> @@ t6 :> <<"a">>
Decimal  == <<"0", "1", "2", "3", "4", "5", "6", "7", "8", "9">>
=============================================================================
