---------------------------- MODULE MCConnection ----------------------------
(* Instances of Connection for TLC.                                        *)
EXTENDS Connection

Request(body, declared, keep) ==
  [body |-> body, declared |-> declared, keep |-> keep]

Get   == Request(0, 0, TRUE)
Post  == Request(2, 2, TRUE)
Bye   == Request(1, 1, FALSE)
Stuck == Request(0, 1, TRUE)                  \* a body that never comes
Huge  == Request(0, SizeMod - 1, TRUE)        \* the sum of the lengths wraps

MCScripts ==
  {<<Get, Post>>, <<Post, Get>>, <<Post, Bye>>, <<Bye, Get>>,
   <<Post, Stuck>>, <<Get, Huge>>}

MCByte == (1..2) \X (1..5)
=============================================================================
