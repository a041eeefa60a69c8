-------------------------- MODULE MCVendorInstall --------------------------
(* Two packages over two files: their declared versions overlap, and the     *)
(* first drops a file.                                                       *)
EXTENDS VendorInstall, TLC

CONSTANTS p, q

MCFiles == <<<<{"f", "g"}, {"f"}>>, <<{"f"}, {"f", "g"}>>>>

Layout(project, lockfile) == [project |-> project, lockfile |-> lockfile]

\* Two processes in a project; two projects with a common lockfile; two
\* configurations of a project with a lockfile each.
MCLayouts ==
  { Layout(p :> "a" @@ q :> "a", p :> "k" @@ q :> "k"),
    Layout(p :> "a" @@ q :> "b", p :> "k" @@ q :> "k"),
    Layout(p :> "a" @@ q :> "a", p :> "k" @@ q :> "l") }
=============================================================================
