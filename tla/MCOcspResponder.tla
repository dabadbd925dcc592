--------------------------- MODULE MCOcspResponder ---------------------------
(***************************************************************************)
(* OcspResponder on small instances.                                       *)
(***************************************************************************)
EXTENDS OcspResponder, TLC

\* Connections are interchangeable, and so are serials: no property tells them
\* apart.
ConnSerialSymmetry == {p @@ q : p \in Permutations(Conns), q \in Permutations(Serials)}

=============================================================================
