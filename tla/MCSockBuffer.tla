---------------------------- MODULE MCSockBuffer ----------------------------
(* The instances of SockBuffer for TLC.                                    *)
EXTENDS SockBuffer

(* A line ended by CR LF and one cut short.                                *)
MCKind == <<"cr", "lf", "chr">>

(* One mode that never waits, next to one that does.                       *)
MCLimits == [block |-> {-1, 0}, total |-> {-1, 1}]
MCWaits == {-1, 1}
=============================================================================
