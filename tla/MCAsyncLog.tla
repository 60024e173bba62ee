----------------------------- MODULE MCAsyncLog -----------------------------
(* AsyncLog on a ring of four bytes, lines of up to three, taken two at a  *)
(* time: every line may be cut, wrap, fill the ring exactly or find it     *)
(* full.  Two threads log.                                                 *)
EXTENDS AsyncLog

MCLines == {<<"a">>, <<"b", "c">>, <<"d", "e", "f">>}
=============================================================================
