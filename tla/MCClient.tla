------------------------------ MODULE MCClient ------------------------------
(* The account cache and the transaction builder of one client.  They share  *)
(* no variable (a builder owns a copy of the user data), and each property   *)
(* is about one of them; so every behaviour that can violate one is there if *)
(* either is at rest while the other works.                                  *)
EXTENDS AccountCache, MCTransaction

ClientInit == Init /\ BuilderInit

ClientNext ==
  \/ /\ ixs = <<>> /\ ~legacy /\ lookup_tables = <<"program">> /\ outcome = "open"
     /\ Next /\ UNCHANGED builder_vars
  \/ /\ chain = <<>> /\ channels = <<>> /\ \A c \in Caller : pc[c] = "idle"
     /\ BuilderNext /\ UNCHANGED vars

ClientSpec ==
  ClientInit /\ [][ClientNext]_<<vars, builder_vars>> /\ CacheFairness
=============================================================================
