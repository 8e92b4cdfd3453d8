-------------------------------- MODULE Scope --------------------------------
(***************************************************************************)
(* The patches of Scope.Close.  A reconcile works on a copy of the object; *)
(* the patch helper compares the copy with the snapshot taken when the     *)
(* scope was made and sends a merge patch of what differs, with no         *)
(* precondition on the version it lands on.                                *)
(***************************************************************************)

(* One field after such a patch: the changed value, or what is there.      *)
Merge(there, b, a) == IF a # b THEN a ELSE there
===============================================================================
