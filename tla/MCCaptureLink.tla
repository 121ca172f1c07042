---------------------------- MODULE MCCaptureLink ----------------------------
(* A small link for TLC: a frame and one of the next generation. *)
EXTENDS CaptureLink

MCFrames == {<<1, 2>>, <<2, 1>>}
MCSenders == {"device"}
MCSyncing == {"device"}
=============================================================================
