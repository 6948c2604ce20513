---------------------------- MODULE MCWebClient ----------------------------
(* A small instance of WebClient for TLC.                                  *)
EXTENDS WebClient

(* Responses with and without events to replay.                            *)
MCTicks == {0, 1}

(* A restart on the first page, and another page after it.                 *)
MCResets == <<2, 1>>
=============================================================================
