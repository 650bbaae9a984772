---------------------------- MODULE MCOrbitStream ----------------------------
(***************************************************************************)
(* Loads for TLC: data flows one way at a time, two units from the client  *)
(* or two from the server.                                                 *)
(***************************************************************************)
EXTENDS OrbitStream

OneWay == {[e \in Ends |-> IF e = "client" THEN 2 ELSE 0],
           [e \in Ends |-> IF e = "server" THEN 2 ELSE 0]}

=============================================================================
