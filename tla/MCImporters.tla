--------------------------- MODULE MCImporters ----------------------------
(* Projects for the search: two environments and three libraries that import
   each other in every way; and projects with what is special: charts, links,
   nested environments, relative imports, a copy of a vendored file. *)
EXTENDS Importers, FiniteSets, TLC

CONSTANTS Graphs, Shadowed
ASSUME {Graphs, Shadowed} \subseteq BOOLEAN

P == INSTANCE ImportPaths

one == <<"one", "main.jsonnet">>
two == <<"two", "main.jsonnet">>
local == <<"one", "x">>
a == <<"vendor", "a", "f">>
b == <<"vendor", "b", "g">>
c == <<"lib", "c", "h">>
own == <<"two", "vendor", "b", "g">>
chart == <<"lib", "c", "chart", "values">>
link == <<"vendor", "l", "h">>
nested == <<"one", "in", "main.jsonnet">>
above == <<"y">>
Files == {one, two, local, a, b, c, own, chart, link, nested, above}

ToA == P!Literal(0, <<"a", "f">>)
ToB == P!Literal(0, <<"b", "g">>)
ToC == P!Literal(0, <<"c", "h">>)
ToLocal == P!Literal(0, <<"x">>)
UpToA == P!Literal(1, <<"a", "f">>)
UpToLocal == P!Literal(1, <<"x">>)
UpToAbove == P!Literal(1, <<"y">>)
ToLink == P!Literal(0, <<"l", "h">>)
ToOne == P!Literal(1, <<"one", "main.jsonnet">>)

NoImports == [file \in Files |-> {}]
Tree(files, others, imports, charts, links) ==
  [files |-> files, others |-> others, imports |-> imports,
   charts |-> [file \in Files |-> IF file \in charts THEN {P!Dir(chart)} ELSE {}],
   links |-> links]

NoLinks == [l \in {} |-> one]

(* Every graph of three libraries under two environments. *)
GraphsOf(files, fromOne, fromTwo) ==
  {Tree(files, {}, [NoImports EXCEPT ![a] = ia, ![b] = ib, ![c] = ic,
                                     ![one] = i1, ![two] = i2], {}, NoLinks) :
     ia \in SUBSET {ToB, ToC}, ib \in SUBSET {UpToA, ToC}, ic \in SUBSET {ToA, ToB},
     i1 \in fromOne, i2 \in fromTwo}

PlainTrees ==
  GraphsOf({one, two, local, a, b, c}, {{ToLocal}, {ToA, ToLocal}}, {{ToB}, {ToC, ToOne}})

(* The second environment has its own b. *)
ShadowedTrees == GraphsOf({one, two, a, b, c, own}, {{ToA}}, {{ToB}, {ToC}})

SpecialTrees ==
  { Tree({one, two, c}, {chart},
         [NoImports EXCEPT ![one] = {ToC}, ![two] = {ToOne}], {c}, NoLinks),
    Tree({one, two, c, link}, {},
         [NoImports EXCEPT ![one] = {ToLink}, ![two] = {ToC}], {}, link :> c),
    Tree({one, two, local, nested, a}, {},
         [NoImports EXCEPT ![nested] = {UpToLocal, ToA}, ![local] = {ToA}], {}, NoLinks),
    Tree({one, two, b, c}, {},
         [NoImports EXCEPT ![one] = {ToB}, ![b] = {UpToA}, ![two] = {ToC},
                           ![c] = {ToA}], {}, NoLinks),
    Tree({one, two, above}, {},
         [NoImports EXCEPT ![one] = {UpToAbove}], {}, NoLinks) }

Trees ==
  (IF Graphs THEN PlainTrees \cup SpecialTrees ELSE {})
    \cup (IF Shadowed THEN ShadowedTrees ELSE {})

Projects == {P!IndexOf(tree, Files) : tree \in Trees}

Asked(file) == [file |-> file, deleted |-> FALSE]
Queries ==
  {{Asked(a)}, {Asked(b)}, {Asked(c)}, {Asked(a), Asked(b)}, {Asked(local)},
   {Asked(chart)}, {Asked(above)},
   {[file |-> a, deleted |-> TRUE], Asked(c)}}

(* The graphs and the special trees are such that the searches can agree. *)
ASSUME LiteralsAgree

(* Without a copy of b every graph is plain; of the special trees those are
   without a link and without an environment in another. *)
ASSUME Graphs => /\ \A tree \in PlainTrees : P!Plain(tree)
                 /\ Cardinality({tree \in SpecialTrees : P!Plain(tree)}) = 3
=============================================================================
