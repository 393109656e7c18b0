-------------------------- MODULE PartialFunctions --------------------------
(***************************************************************************)
(* Functions on part of a set: a directory maps the names that exist in it *)
(* to contents.                                                            *)
(***************************************************************************)
EXTENDS Functions

(* The functions from a subset of S to T. *)
Partial(S, T) == UNION {[D -> T] : D \in SUBSET S}

(* f with x set to y, whether or not f has an x. *)
Put(f, x, y) == [z \in DOMAIN f \cup {x} |-> IF z = x THEN y ELSE f[z]]

(* f without x. *)
Drop(f, x) == Restrict(f, DOMAIN f \ {x})

(* f with everything g has put on top. *)
Overlay(f, g) ==
  [z \in DOMAIN f \cup DOMAIN g |-> IF z \in DOMAIN g THEN g[z] ELSE f[z]]
=============================================================================
