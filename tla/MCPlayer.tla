------------------------------ MODULE MCPlayer ------------------------------
(***************************************************************************)
(* The two players and two commands: a start and a stop is the shortest    *)
(* run in which an order other than the one given ends in another state.   *)
(* Of the two announcements one is over when the other goes on, and either *)
(* may follow the other.                                                   *)
(***************************************************************************)
EXTENDS Playback

CONSTANTS sender, receiver, short, long, nofile

MCPlayers == {sender, receiver}

MCFiles == {short, long}

MCLength == [f \in MCFiles |-> IF f = short THEN 1 ELSE 2]
=============================================================================
