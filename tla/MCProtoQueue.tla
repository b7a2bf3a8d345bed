--------------------------- MODULE MCProtoQueue ---------------------------
(* A ring of seven bytes and messages whose frames take two to eight: they   *)
(* need no escape, one, or one per byte, and the last one never fits.        *)
EXTENDS ProtoQueue

MCMessages == {<<>>, <<"61">>, <<"7E">>, <<"61", "7D">>,
               <<"7F", "7E", "7D">>}
=============================================================================
