---------------------------- MODULE MCExportBulk ----------------------------
(***************************************************************************)
(* Instances of ExportBulk for TLC.  Two environments, dev and prod, are   *)
(* declared inline by one entrypoint and share its identifier; a third has *)
(* an entrypoint of its own.                                               *)
(***************************************************************************)
EXTENDS ExportBulk, TLC

CONSTANTS dev, prod, solo, shared, own, f1, f2, f3

MCEnv == {dev, prod, solo}
MCIdentOf == (dev :> shared) @@ (prod :> shared) @@ (solo :> own)
MCRev == {1, 2}
MCContent == MCEnv \X MCRev

Outputs(d, p, s) == (dev :> d) @@ (prod :> p) @@ (solo :> s)
Sources(found, out, rev) == [found |-> found, out |-> out, rev |-> rev]

(* Two revisions of one project: the second drops files of dev, which took a
   second chunk, and leaves prod's alone. *)
Long   == Outputs(<<f1, f2, f3>>, <<f3>>, <<f2>>)
First  == Outputs(<<f1, f2>>, <<f3>>, <<f2>>)
Second == Outputs(<<f1>>, <<f3>>, <<f2>>)
Emptied == Outputs(<<f1>>, <<f3>>, <<>>)

(* What bulk exports of dev, solo and prod can find: solo colliding with the
   first revision of dev, or without a manifest, and an entrypoint that is
   broken. *)
AllProjects ==
  {Sources(<<dev, solo>>, Long, 1), Sources(<<dev, solo>>, Second, 2),
   Sources(<<prod, dev, solo>>, Second, 1), Sources(<<dev, Broken, solo>>, Second, 1),
   Sources(<<Broken, dev>>, Second, 1), Sources(<<dev, solo>>, Emptied, 2),
   Sources(<<>>, Second, 1)}

(* One environment after the other, sharing an identifier or not. *)
PairProjects ==
  {Sources(<<dev, prod>>, First, 1), Sources(<<dev, prod>>, Second, 1),
   Sources(<<solo>>, Second, 2)}

With(strategy, skip, gone) ==
  [strategy |-> strategy, skipManifest |-> skip, gone |-> gone]

FreshOptions == {With("none", FALSE, {})}
MergeOptions == {With("fail-on-conflicts", FALSE, {}),
                 With("replace-envs", FALSE, {})}
AllOptions == MergeOptions \cup FreshOptions \cup
              {With("replace-envs", TRUE, {}),
               With("fail-on-conflicts", FALSE, {own})}
=============================================================================
