------------------------ MODULE MCNamespaceController ------------------------
(***************************************************************************)
(* One project and one namespace: projects only meet in the labels *)
(* of namespaces, and leaving for no project or for the system project is  *)
(* leaving for another one.                                                *)
(***************************************************************************)
EXTENDS NamespaceController
=============================================================================
