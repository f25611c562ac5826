----------------------------- MODULE MCAdminMenu -----------------------------
(* Instances of AdminMenu for TLC. *)
EXTENDS AdminMenu
=============================================================================
