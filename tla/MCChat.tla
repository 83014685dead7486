-------------------------------- MODULE MCChat --------------------------------
(* Two questions, two chats; in one world the back end fails, in the other the *)
(* network and the user.                                                       *)
EXTENDS ChatProperties

MCSteps == <<1, 0>>
MCWorlds == {{"sound", "reliable", "patient"}, {"sound", "alone"}, {"alone"}}
=============================================================================
