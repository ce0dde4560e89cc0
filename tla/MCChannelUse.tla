---------------------------- MODULE MCChannelUse ----------------------------
(***************************************************************************)
(* Three processes and one channel: two can connect, one cannot.           *)
(***************************************************************************)
EXTENDS ChannelUse
=============================================================================
