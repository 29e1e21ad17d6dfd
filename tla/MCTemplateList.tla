---------------------------- MODULE MCTemplateList ----------------------------
(* A list of two cards and a stream of three comments, which meet the limit,    *)
(* deletions, and a second delivery, a break or a scene that is hidden or shown. *)
EXTENDS TemplateList
=============================================================================
