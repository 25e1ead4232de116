------------------------------ MODULE MCPreview ------------------------------
(* Workloads and services in miniature: containers merged by name with lists
   of arguments in them, ports merged by number and protocol, volumes with
   retainKeys. *)
EXTENDS Preview

Names == {"replicas", "spec", "containers", "ports", "volumes", "name", "image",
             "cmd", "args", "policy", "port", "protocol", "target", "host", "secret"}
Keys == [f \in Names |-> CASE f \in {"containers", "volumes"} -> <<"name">>
                              [] f = "ports" -> <<"port", "protocol">>
                              [] OTHER -> <<>>]

One(f, v) == f :> v
Maybe(f, v) == {Nothing, One(f, v)}
Args == {Nothing, One("args", Arr(<<Str("x")>>)), One("args", Arr(<<Str("x"), Str("y")>>))}
Container(name, images, cmds, args) ==
  {Obj(One("name", Str(name)) @@ One("image", Str(i)) @@ c @@ a) :
     i \in images, c \in cmds, a \in args}
A == Container("a", {"1", "2"}, {Nothing}, {Nothing})
       \cup Container("a", {"1"}, {One("cmd", Str("c"))}, {Nothing})
       \cup Container("a", {"1"}, {Nothing}, Args)
B == Container("b", {"1"}, Maybe("cmd", Str("c")), {Nothing})

WithSpec(f, lists) == {Obj(One("spec", Obj(One(f, Arr(l))))) : l \in lists}
Workloads ==
  WithSpec("containers", {<<a>> : a \in A} \cup {<<b>> : b \in B}
                      \cup {<<a, b>> : a \in A, b \in B} \cup {<<b, a>> : a \in A, b \in B})
Volume(source) == Obj(One("name", Str("v")) @@ One(source, Obj(One("policy", Str("p")))))
Port(n, protocol, more) == Obj(One("port", Num(n)) @@ One("protocol", Str(protocol)) @@ more)
Others ==
  WithSpec("volumes", {<<Volume("host")>>, <<Volume("secret")>>})
  \cup WithSpec("ports", {<<Port("53", "UDP", Nothing)>>,
                       <<Port("53", "TCP", Nothing), Port("53", "UDP", Nothing)>>,
                       <<Port("53", "UDP", One("target", Num("1")))>>})
  \cup {Obj(One("spec", Obj(One("replicas", Num("1"))))), Obj(One("spec", Empty))}

Manifests == Workloads \cup Others

(* The cluster scales, sets a default in every item, and injects a container
   before, between or behind. *)
SpecOf(object) == object.m["spec"]
InSpec(object, f, v) == Obj(One("spec", Obj(One(f, v) @@ SpecOf(object).m)))
Defaulted(item) == Obj(item.m @@ One("policy", Str("p")))
Sidecar == Obj(One("name", Str("s")) @@ One("image", Str("9")))
Drifted(object) ==
  {InSpec(object, "replicas", Num("2"))}
  \cup UNION {LET list == SpecOf(object).m[f].a
              IN  {InSpec(object, f, Arr([i \in 1 .. Len(list) |-> Defaulted(list[i])]))} :
              f \in DOMAIN SpecOf(object).m \cap {"containers", "volumes", "ports"}}
  \cup UNION {LET list == SpecOf(object).m[f].a
              IN  {InSpec(object, f, Arr(InsertAt(list, i, Sidecar))) : i \in 1 .. Len(list) + 1} :
              f \in DOMAIN SpecOf(object).m \cap {"containers"}}
=============================================================================
