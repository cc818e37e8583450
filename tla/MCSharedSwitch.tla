--------------------------- MODULE MCSharedSwitch ---------------------------
(***************************************************************************)
(* Instances of SharedSwitch.                                              *)
(***************************************************************************)
EXTENDS SharedSwitch

Events(edit, drift, fail) ==
    [e \in Event |-> CASE e = "edit" -> edit [] e = "drift" -> drift [] e = "fail" -> fail]

Everything == Events(2, 1, 1)
OneEdit    == Events(1, 0, 0)

=============================================================================
