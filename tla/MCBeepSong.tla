----------------------------- MODULE MCBeepSong -----------------------------
(***************************************************************************)
(* The instance of BeepSong for TLC: the two songs of beep.c.              *)
(***************************************************************************)
EXTENDS BeepSong

MCSongs == <<song_alarm1, song_alarm2>>
=============================================================================
