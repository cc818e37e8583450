----------------------------- MODULE MCAclPolicy -----------------------------
(***************************************************************************)
(* Small instances of AclPolicy: three rules, lists of up to three.        *)
(***************************************************************************)
EXTENDS AclPolicy

Events(edit, fail, refuse, redo, drift) ==
    [e \in Event |-> CASE e = "edit" -> edit [] e = "fail" -> fail [] e = "refuse" -> refuse
                       [] e = "redo" -> redo [] e = "drift" -> drift]
Everything == Events(2, 1, 1, 1, 1)
OneRefusal == Events(1, 0, 1, 0, 0)
OneEdit    == Events(1, 0, 0, 0, 0)

=============================================================================
